---- MODULE Spec2Model ----
(***************************************************************************)
(* gemini-mcp: the deep-research orchestrator (GeminiDeepResearchTool),    *)
(* the model catalog's single-flight discovery (GeminiService) and the     *)
(* tool handlers that call them.                                           *)
(*                                                                         *)
(* JavaScript runs each handler to its next await without interruption, so *)
(* an action is one synchronous segment of a handler: from its entry or    *)
(* from the completion it awaited up to the next await or its return.      *)
(***************************************************************************)
EXTENDS Integers, Sequences, FiniteSets, TLC

(***************************************************************************)
(* Bounds of the model.                                                    *)
(***************************************************************************)
\* plain chat / listModels tool invocations in one process
MaxCallers == 2
\* successful backend responses per run that carry no usage metadata
MaxNoUsage == 1
\* totalTokenCount of a backend response that carries usage metadata
TokensPerCall == 9000

CallerIds == 1..MaxCallers
RunIds == {1, 2}

(***************************************************************************)
(* Program constants.                                                      *)
(***************************************************************************)
DefaultIterations == 5
IterationCap == 10
SchemaMinIterations == 3
SchemaMaxIterations == 10
FallbackContextWindow == 32000
SynthesisSafetyMargin == 10000
CharsPerToken == 4
\* buildSmartContext: the characters of a response kept in its summary, and
\* the share of the allowance it fills, in tenths
SummaryChars == 1000
ContextShare10 == 8
ResearchMaxTokens == 8192
SynthesisMaxTokens == 16384
\* temperatures of the two kinds of call, in tenths
ResearchTemperature10 == 5
SynthesisTemperature10 == 6
ConfigDefaultModel == "gemini-2.5-flash"

\* no helper is being applied
NoCalc == [fn |-> "none"]

\* an optional number is the empty set (undefined) or a singleton
Undefined == {}
Some(v) == {v}
ValueOf(opt) == CHOOSE v \in opt : TRUE

Min(a, b) == IF a <= b THEN a ELSE b
Max(a, b) == IF a >= b THEN a ELSE b

(***************************************************************************)
(* Model names.  selectDefaultModel and extractVersion inspect the text of *)
(* a name; NameTraits gives, for each name of the model's universe, what   *)
(* those substring tests and the version regex return on it.               *)
(***************************************************************************)
NameTraits(n) ==
  CASE n = "gemini-2.5-flash"      -> [gemini |-> TRUE,  experimental |-> FALSE, version10 |-> 25, flash |-> TRUE]
    [] n = "gemini-2.0-flash"      -> [gemini |-> TRUE,  experimental |-> FALSE, version10 |-> 20, flash |-> TRUE]
    [] n = "gemini-1.5-flash"      -> [gemini |-> TRUE,  experimental |-> FALSE, version10 |-> 15, flash |-> TRUE]
    [] n = "gemini-1.5-pro"        -> [gemini |-> TRUE,  experimental |-> FALSE, version10 |-> 15, flash |-> FALSE]
    [] n = "gemini-pro"            -> [gemini |-> TRUE,  experimental |-> FALSE, version10 |-> 0,  flash |-> FALSE]
    [] n = "gemini-pro-vision"     -> [gemini |-> TRUE,  experimental |-> FALSE, version10 |-> 0,  flash |-> FALSE]
    [] n = "gemini-2.5-pro"        -> [gemini |-> TRUE,  experimental |-> FALSE, version10 |-> 25, flash |-> FALSE]
    [] n = "gemini-3.0-pro-preview" -> [gemini |-> TRUE, experimental |-> TRUE,  version10 |-> 30, flash |-> FALSE]
    [] n = "gemma-3-27b-it"        -> [gemini |-> FALSE, experimental |-> FALSE, version10 |-> 30, flash |-> FALSE]
    [] n = "gemini-2.0-flash-exp"  -> [gemini |-> TRUE,  experimental |-> TRUE,  version10 |-> 20, flash |-> TRUE]
    [] n = "learnlm-2.0-flash-experimental"
                                   -> [gemini |-> FALSE, experimental |-> TRUE,  version10 |-> 20, flash |-> TRUE]
    [] OTHER                       -> [gemini |-> FALSE, experimental |-> FALSE, version10 |-> 0,  flash |-> FALSE]

getFallbackModels ==
  << [name |-> "gemini-2.5-flash",  contextWindow |-> 1000000],
     [name |-> "gemini-2.0-flash",  contextWindow |-> 1000000],
     [name |-> "gemini-1.5-flash",  contextWindow |-> 1000000],
     [name |-> "gemini-1.5-pro",    contextWindow |-> 2000000],
     [name |-> "gemini-pro",        contextWindow |-> 32000],
     [name |-> "gemini-pro-vision", contextWindow |-> 16000] >>

\* what a discovery request can bring back: a failure, or the list that
\* fetchModelsFromAPI builds from the payload (possibly empty)
DiscoveredLists ==
  { << >>,
    << [name |-> "gemini-3.0-pro-preview", contextWindow |-> 1048576],
       [name |-> "gemini-2.5-pro",         contextWindow |-> 1048576],
       [name |-> "gemini-2.5-flash",       contextWindow |-> 1048576] >> }

\* the comparator with the version difference taken the other way round
SortsBefore_Ascending(a, b) ==
  LET ta == NameTraits(a.name)
      tb == NameTraits(b.name)
  IN  \/ ta.version10 < tb.version10
      \/ ta.version10 = tb.version10 /\ ta.flash /\ ~tb.flash

\* a sorts strictly before b under the comparator of selectDefaultModel
SortsBefore(a, b) ==
  LET ta == NameTraits(a.name)
      tb == NameTraits(b.name)
  IN  \/ ta.version10 > tb.version10
      \/ ta.version10 = tb.version10 /\ ta.flash /\ ~tb.flash

\* the head of a stable sort: the first element no other element sorts before
SortedHead(s) ==
  LET k == CHOOSE k \in 1..Len(s) :
             /\ \A j \in 1..Len(s) : ~SortsBefore(s[j], s[k])
             /\ \A j \in 1..(k - 1) : \E l \in 1..Len(s) : SortsBefore(s[l], s[j])
  IN  s[k]

\* the selection without the filter on experimental names
selectDefaultModel_Unfiltered(models, allowExperimentalModels) ==
  LET IsGemini(m) == NameTraits(m.name).gemini
      geminiModels == SelectSeq(models, IsGemini)
  IN  IF Len(models) = 0 THEN ""
      ELSE IF Len(geminiModels) = 0 THEN models[1].name
      ELSE SortedHead(geminiModels).name

\* the new default name, or "" for null
selectDefaultModel(models, allowExperimentalModels) ==
  LET IsGemini(m) == NameTraits(m.name).gemini
      IsStable(m) == ~NameTraits(m.name).experimental
      geminiModels == SelectSeq(models, IsGemini)
      stableModels == SelectSeq(geminiModels, IsStable)
      candidates == IF ~allowExperimentalModels /\ Len(stableModels) > 0
                      THEN stableModels ELSE geminiModels
  IN  IF Len(models) = 0 THEN ""
      ELSE IF Len(geminiModels) = 0 THEN models[1].name
      ELSE SortedHead(candidates).name

\* model?.contextWindow || 32_000, model being the first entry of that name
getModelContextWindow(models, modelName) ==
  LET Named(m) == m.name = modelName
      hits == SelectSeq(models, Named)
  IN  IF Len(hits) > 0 /\ hits[1].contextWindow # 0
        THEN hits[1].contextWindow
        ELSE FallbackContextWindow

(***************************************************************************)
(* State.                                                                  *)
(***************************************************************************)
VARIABLES
  modelsInitialized,      \* GeminiService.modelsInitialized
  initializationPromise,  \* "null", "pending" or "resolved"
  availableModels,        \* GeminiService.availableModels
  defaultModel,           \* GeminiService.defaultModel
  allowExperimental,      \* config.allowExperimentalModels
  discoveryCalls,         \* model-list requests issued by fetchModelsFromAPI
  discoveryOutcome,       \* "none", "failed" or "discovered"
  caller,                 \* the chat / listModels tool invocations
  run,                    \* the deep-research invocations
  calc                    \* one application of a helper: its arguments and result

vars == << modelsInitialized, initializationPromise, availableModels, defaultModel,
           allowExperimental, discoveryCalls, discoveryOutcome, caller, run, calc >>

catalogVars == << modelsInitialized, initializationPromise, availableModels,
                  defaultModel, allowExperimental, discoveryCalls, discoveryOutcome >>

(***************************************************************************)
(* GeminiService.ensureModelsInitialized, initializeModels                 *)
(***************************************************************************)
\* the check without the test for a promise in flight
EnsureBranch_NoPromiseCheck(initialized, promise) ==
  IF initialized THEN "return" ELSE "start"

\* the check that returns at once when a promise exists, without awaiting it
EnsureBranch_NoAwait(initialized, promise) ==
  IF initialized \/ promise # "null" THEN "return" ELSE "start"

\* the branch the synchronous part of ensureModelsInitialized takes:
\* "return" (already initialized), "join" (await the existing promise) or
\* "start" (create the promise, which issues the discovery request)
EnsureBranch(initialized, promise) ==
  IF initialized THEN "return"
  ELSE IF promise # "null" THEN "join"
  ELSE "start"

\* where a chat / listModels call stands after that synchronous part
EnsureWait(branch) ==
  CASE branch = "return" -> "backend"
    [] branch = "join"   -> "promiseWait"
    [] branch = "start"  -> "initWait"

\* the effect of that synchronous part on the service
EnsureEnter(branch) ==
  IF branch = "start"
    THEN /\ initializationPromise' = "pending"
         /\ discoveryCalls' = discoveryCalls + 1
         /\ UNCHANGED << modelsInitialized, availableModels, defaultModel,
                         allowExperimental, discoveryOutcome >>
    ELSE UNCHANGED catalogVars

\* a catch that resets the list the failed fetch was to replace
DiscoveryFails_DropsList ==
  /\ initializationPromise = "pending"
  /\ initializationPromise' = "resolved"
  /\ discoveryOutcome' = "failed"
  /\ availableModels' = << >>
  /\ UNCHANGED << modelsInitialized, defaultModel,
                  allowExperimental, discoveryCalls, caller, run, calc >>

\* initializeModels after fetchModelsFromAPI threw (no connection, a status
\* that is not ok, a payload it cannot read): the catch logs the error and
\* keeps the fallback data
DiscoveryFails ==
  /\ initializationPromise = "pending"
  /\ initializationPromise' = "resolved"
  /\ discoveryOutcome' = "failed"
  /\ UNCHANGED << modelsInitialized, availableModels, defaultModel,
                  allowExperimental, discoveryCalls, caller, run, calc >>

\* initializeModels after its fetch returned a list
DiscoverySucceeds ==
  /\ initializationPromise = "pending"
  /\ \E models \in DiscoveredLists :
       LET selectedDefault == selectDefaultModel(models, allowExperimental)
       IN  /\ availableModels' = models
           /\ defaultModel' = IF selectedDefault # "" THEN selectedDefault
                               ELSE defaultModel
  /\ initializationPromise' = "resolved"
  /\ discoveryOutcome' = "discovered"
  /\ UNCHANGED << modelsInitialized, allowExperimental, discoveryCalls, caller, run, calc >>

\* getAvailableModels(): this.availableModels.map(model => model.name)
getAvailableModels == [k \in 1..Len(availableModels) |-> availableModels[k].name]

(***************************************************************************)
(* GeminiService.chat and GeminiService.listModels called by the           *)
(* gemini_chat and gemini_list_models handlers                             *)
(***************************************************************************)
\* branch records the branch of ensureModelsInitialized the call took
IdleCaller ==
  [pc |-> "idle", op |-> "none", result |-> "none", models |-> << >>, branch |-> "none"]
OffCaller == [IdleCaller EXCEPT !.pc = "off"]

\* what the call does once ensureModelsInitialized has returned: chat issues
\* its generateContent request, listModels returns the catalog's list
AfterEnsure(c, op) ==
  IF op = "chat"
    THEN [ c EXCEPT !.pc = "backend" ]
    ELSE [ c EXCEPT !.pc = "done", !.result = "ok", !.models = availableModels ]

\* a handler calls chat or listModels, which run up to their first await
CallService(c) ==
  LET branch == EnsureBranch(modelsInitialized, initializationPromise)
  IN  /\ caller[c].pc = "idle"
      /\ \E op \in { "chat", "listModels" } :
           caller' = [caller EXCEPT ![c] =
                        IF branch = "return"
                          THEN AfterEnsure([caller[c] EXCEPT !.op = op,
                                                             !.branch = branch], op)
                          ELSE [ caller[c] EXCEPT !.op = op, !.branch = branch,
                                                  !.pc = EnsureWait(branch) ]]
      /\ EnsureEnter(branch)
      /\ UNCHANGED << run, calc >>

\* ensureModelsInitialized resumes in the call that started the discovery.
\* The calls waiting for the promise resume in any order here; the event loop
\* resumes them in one fixed order, which is one of these.
CallerEnsureResume(c) ==
  /\ caller[c].pc = "initWait"
  /\ initializationPromise = "resolved"
  /\ modelsInitialized' = TRUE
  /\ caller' = [caller EXCEPT ![c] = AfterEnsure(caller[c], caller[c].op)]
  /\ UNCHANGED << initializationPromise, availableModels, defaultModel,
                  allowExperimental, discoveryCalls, discoveryOutcome, run, calc >>

\* a call that joined the promise of another call resumes
CallerPromiseResume(c) ==
  /\ caller[c].pc = "promiseWait"
  /\ initializationPromise = "resolved"
  /\ caller' = [caller EXCEPT ![c] = AfterEnsure(caller[c], caller[c].op)]
  /\ UNCHANGED << catalogVars, run, calc >>

\* generateContent returns or throws; chat returns the response or a GeminiError
ChatReturns(c) ==
  /\ caller[c].pc = "backend"
  /\ \E outcome \in { "ok", "GeminiError" } :
       caller' = [caller EXCEPT ![c].pc = "done", ![c].result = outcome]
  /\ UNCHANGED << catalogVars, run, calc >>

(***************************************************************************)
(* GeminiDeepResearchTool.execute and the gemini_deep_research handler     *)
(***************************************************************************)
IdleRun ==
  [ pc |-> "idle", via |-> "none", max_iterations |-> Undefined, modelArg |-> "",
    maxIterations |-> 0, model |-> "", modelContextWindow |-> 0,
    researchBudget |-> 0, synthesisReserve |-> 0, i |-> 0,
    cumulativeTokens |-> 0, consecutiveFailures |-> 0, researchSteps |-> << >>,
    report |-> << >>, calls |-> << >>, phase |-> "none", chat |-> "none",
    result |-> "none", focusAreas |-> 0,
    availableForSynthesis |-> 0, maxCharsPerStep |-> 0, allSources |-> << >>,
    \* the record of what the backend did, kept for the statements below
    noUsage |-> 0, outcomes |-> << >>, synthesisOutcome |-> "none",
    synthesisTokens |-> 0, blockedCalls |-> {}, responses |-> << >> ]

OffRun == [IdleRun EXCEPT !.pc = "off"]

Note(kind, n) == [kind |-> kind, iter |-> n]

\* the max_iterations values an invocation is tried with
MaxIterationsArgs ==
  { Undefined, Some(-1), Some(1), Some(SchemaMinIterations), Some(IterationCap + 1) }

\* the model values an invocation is tried with ("" is no model given)
ModelArgs == { "", "gemini-pro", "gemini-pro-vision" }

\* z.number().int().min(3).max(10).optional().default(5): the validated
\* value, or Undefined when the registry rejects the arguments
maxIterationsSchema(arg) ==
  IF arg = Undefined THEN Some(DefaultIterations)
  ELSE IF ValueOf(arg) < SchemaMinIterations \/ ValueOf(arg) > SchemaMaxIterations
    THEN Undefined
  ELSE arg

\* Math.min(args.max_iterations || 5, 10)
PlannedIterations(arg) ==
  Min(IF arg = Undefined \/ arg = Some(0) THEN DefaultIterations ELSE ValueOf(arg),
      IterationCap)

\* the research budget rounded up instead of down
ResearchBudgetOf_RoundUp(w) == (w * 75 + 99) \div 100

\* Math.floor(modelContextWindow * 0.75), Math.floor(modelContextWindow * 0.20)
ResearchBudgetOf(w) == (w * 75) \div 100
SynthesisReserveOf(w) == (w * 20) \div 100

\* the guard comparing tokens with a budget taken in characters
BudgetExhausted_InChars(cumulativeTokens, researchBudget) ==
  cumulativeTokens >= researchBudget * 4

\* the loop's guard on the token budget
BudgetExhausted(cumulativeTokens, researchBudget) == cumulativeTokens >= researchBudget

\* the guard firing one failure late
FailFast_Late(consecutiveFailures, steps) == consecutiveFailures > 2 /\ steps = 0

\* the guard ignoring the steps already recorded
FailFast_AnySteps(consecutiveFailures, steps) == consecutiveFailures >= 2

\* the fail-fast guard of the catch block
FailFast(consecutiveFailures, steps) == consecutiveFailures >= 2 /\ steps = 0

\* the terminal check that can never fire
AllIterationsFailed_Never(steps) == steps < 0

\* the terminal check after the loop
AllIterationsFailed(steps) == steps = 0

\* the guard letting a single step through
NeedsSynthesis_OneStep(steps) == steps >= 1

\* the guard of the synthesis phase
NeedsSynthesis(steps) == steps > 1

\* execute up to the loop: the plan of the run
ExecuteStart(r, via, arg, modelArg) ==
  LET model == IF modelArg # "" THEN modelArg ELSE defaultModel
      w == getModelContextWindow(availableModels, model)
      maxIterations == PlannedIterations(arg)
  IN  [ run[r] EXCEPT
          !.pc = "loop", !.via = via, !.max_iterations = arg, !.modelArg = modelArg,
          !.maxIterations = maxIterations, !.model = model,
          !.modelContextWindow = w,
          !.researchBudget = ResearchBudgetOf(w),
          !.synthesisReserve = SynthesisReserveOf(w),
          !.report = << Note("plan", maxIterations) >> ]

\* a client calls the registered tool: the registry validates the arguments
\* against the input schema and runs the handler, which calls execute
InvokeTool(r) ==
  /\ run[r].pc = "idle"
  /\ \E arg \in MaxIterationsArgs, modelArg \in ModelArgs :
       LET valid == maxIterationsSchema(arg)
       IN  run' = [run EXCEPT ![r] =
                     IF valid = Undefined
                       THEN [ run[r] EXCEPT !.pc = "rejected", !.via = "registry",
                                            !.max_iterations = arg,
                                            !.modelArg = modelArg,
                                            !.result = "INVALID_ARGUMENTS" ]
                       ELSE ExecuteStart(r, "registry", valid, modelArg)]
  /\ UNCHANGED << catalogVars, caller, calc >>

\* execute called on the tool object with the arguments as given
ExecuteDirect(r) ==
  /\ run[r].pc = "idle"
  /\ \E arg \in MaxIterationsArgs, modelArg \in ModelArgs :
       run' = [run EXCEPT ![r] = ExecuteStart(r, "direct", arg, modelArg)]
  /\ UNCHANGED << catalogVars, caller, calc >>

\* execute called on the tool object without an arguments object: reading
\* args.research_question throws a TypeError inside the try block, which the
\* catch block of execute turns into the result
ExecuteWithoutArgs(r) ==
  /\ run[r].pc = "idle"
  /\ run' = [run EXCEPT ![r].pc = "done", ![r].via = "direct",
                        ![r].result = "TypeError"]
  /\ UNCHANGED << catalogVars, caller, calc >>

\* the number of focus areas a focused invocation is tried with
FocusAreasArgs == { 0, 1, 2 }

\* the max_iterations values a focused invocation is tried with
FocusedIterationsArgs == { Undefined, Some(SchemaMinIterations) }

\* a client calls the registered tool with focus_areas
InvokeToolFocused(r) ==
  /\ run[r].pc = "idle"
  /\ \E arg \in FocusedIterationsArgs, n \in FocusAreasArgs :
       run' = [run EXCEPT ![r] =
                 [ ExecuteStart(r, "registry", maxIterationsSchema(arg), "")
                     EXCEPT !.focusAreas = n ]]
  /\ UNCHANGED << catalogVars, caller, calc >>

\* the prompt built from the tokens counted before the last step was added
IterationPrompt_BeforeTokens(s) ==
  [ kind |-> "research",
    focus |-> IF s.focusAreas > 0 /\ s.i < s.focusAreas THEN s.i + 1 ELSE 0,
    context |-> IF s.i > 0 /\ Len(s.researchSteps) > 0
                  THEN { << Len(s.researchSteps),
                            s.researchBudget - s.cumulativeTokens
                              + s.researchSteps[Len(s.researchSteps)].totalTokenCount >> }
                  ELSE {} ]

\* the text of iterationPrompt: the question, the focus area of this pass
\* when there is one (0: none), and the context built from the recorded
\* steps.  buildSmartContext is a function of the steps and of the tokens
\* left, so its text is named by those two; it is '' for no steps, and it is
\* left out in the first pass.
IterationPrompt(s) ==
  [ kind |-> "research",
    focus |-> IF s.focusAreas > 0 /\ s.i < s.focusAreas THEN s.i + 1 ELSE 0,
    context |-> IF s.i > 0 /\ Len(s.researchSteps) > 0
                  THEN { << Len(s.researchSteps), s.researchBudget - s.cumulativeTokens >> }
                  ELSE {} ]

\* the text of synthesisPrompt: the question and the synthesis context, a
\* function of the steps and of availableForSynthesis
SynthesisPrompt(s, availableForSynthesis) ==
  [ kind |-> "synthesis", focus |-> 0,
    context |-> { << Len(s.researchSteps), availableForSynthesis >> } ]

\* a chat request of the orchestrator: this.geminiService.chat({...});
\* kind and iter tell which call of the run it is
ChatRequest(kind, n, message, model, temperature10, grounding, maxTokens) ==
  [kind |-> kind, iter |-> n, message |-> message, model |-> model,
   temperature10 |-> temperature10, grounding |-> grounding, maxTokens |-> maxTokens]

\* what the backend receives of a request
RequestOf(call) ==
  [message |-> call.message, model |-> call.model, temperature10 |-> call.temperature10,
   grounding |-> call.grounding, maxTokens |-> call.maxTokens]

\* the loop condition letting one more pass through
LoopContinues_Inclusive(i, maxIterations) == i <= maxIterations

\* the condition of the for loop: i < maxIterations
LoopContinues(i, maxIterations) == i < maxIterations

\* one pass of the for loop up to the await of the research call
LoopTop(r) ==
  LET s == run[r]
      branch == EnsureBranch(modelsInitialized, initializationPromise)
  IN  /\ s.pc = "loop"
      /\ IF ~LoopContinues(s.i, s.maxIterations)
           THEN /\ run' = [run EXCEPT ![r].pc = "afterLoop"]
                /\ UNCHANGED catalogVars
         ELSE IF BudgetExhausted(s.cumulativeTokens, s.researchBudget)
           THEN /\ run' = [run EXCEPT ![r].pc = "afterLoop",
                                      ![r].report = Append(@, Note("budgetStop", s.i + 1))]
                /\ UNCHANGED catalogVars
         ELSE /\ run' = [run EXCEPT
                           ![r].pc = "chat", ![r].phase = "research",
                           ![r].report = Append(@, Note("iteration", s.i + 1)),
                           ![r].calls = Append(@, ChatRequest("research", s.i + 1,
                                                              IterationPrompt(s), s.model,
                                                              ResearchTemperature10, TRUE,
                                                              ResearchMaxTokens)),
                           ![r].chat = EnsureWait(branch)]
              /\ EnsureEnter(branch)
      /\ UNCHANGED << caller, calc >>

\* the resumption that reads the context window again from the catalog the
\* discovery has left
RunEnsureResume_Refresh(r) ==
  /\ run[r].pc = "chat"
  /\ run[r].chat = "initWait"
  /\ initializationPromise = "resolved"
  /\ modelsInitialized' = TRUE
  /\ run' = [run EXCEPT ![r].chat = "backend",
                        ![r].modelContextWindow =
                           getModelContextWindow(availableModels, run[r].model)]
  /\ UNCHANGED << initializationPromise, availableModels, defaultModel,
                  allowExperimental, discoveryCalls, discoveryOutcome, caller, calc >>

\* ensureModelsInitialized resumes in the call that started the discovery;
\* chat goes on to generateContent
RunEnsureResume(r) ==
  /\ run[r].pc = "chat"
  /\ run[r].chat = "initWait"
  /\ initializationPromise = "resolved"
  /\ modelsInitialized' = TRUE
  /\ run' = [run EXCEPT ![r].chat = "backend"]
  /\ UNCHANGED << initializationPromise, availableModels, defaultModel,
                  allowExperimental, discoveryCalls, discoveryOutcome, caller, calc >>

\* a call that joined the promise of another call resumes (a run joins only
\* when another call of the process started the discovery before it)
RunPromiseResume(r) ==
  /\ run[r].pc = "chat"
  /\ run[r].chat = "promiseWait"
  /\ initializationPromise = "resolved"
  /\ run' = [run EXCEPT ![r].chat = "backend"]
  /\ UNCHANGED << catalogVars, caller, calc >>

\* the usage metadata of a successful response: absent, or a token count
UsageChoices(s) ==
  { Some(TokensPerCall) } \cup (IF s.noUsage < MaxNoUsage THEN { Undefined } ELSE {})

\* a response without usage metadata counted as a full response
TokensOf_Estimated(usage) == IF usage = Undefined THEN ResearchMaxTokens ELSE ValueOf(usage)

TokensOf(usage) == IF usage = Undefined THEN 0 ELSE ValueOf(usage)

\* [...new Set(sources)]: the first occurrence of each entry, in order
RECURSIVE SetOrder(_)
SetOrder(sources) ==
  IF sources = << >> THEN << >>
  ELSE LET front == SetOrder(SubSeq(sources, 1, Len(sources) - 1))
           last == sources[Len(sources)]
       IN  IF \E k \in 1..Len(front) : front[k] = last THEN front
           ELSE Append(front, last)

\* the step that also counts the tokens the other runs have used so far
RecordStep_SharedTokens(s, usage, sources) ==
  [ s EXCEPT
      !.cumulativeTokens =
         IF \E q \in RunIds : run[q].cumulativeTokens > @
           THEN (CHOOSE t \in { run[q].cumulativeTokens : q \in RunIds } :
                   \A q \in RunIds : run[q].cumulativeTokens <= t) + TokensOf(usage)
           ELSE @ + TokensOf(usage),
      !.consecutiveFailures = 0,
      !.researchSteps =
         Append(@, [iter |-> s.i + 1, totalTokenCount |-> TokensOf(usage),
                    sources |-> sources]),
      !.report = Append(@, Note("content", s.i + 1)),
      !.noUsage = IF usage = Undefined THEN @ + 1 ELSE @,
      !.outcomes = Append(@, "ok"),
      !.responses = Append(@, [outcome |-> "ok", usage |-> usage, sources |-> sources]),
      !.i = @ + 1,
      !.pc = "loop", !.chat = "none" ]

\* the step that leaves the consecutive-failure counter as it is
RecordStep_KeepsCounter(s, usage, sources) ==
  [ s EXCEPT
      !.cumulativeTokens = @ + TokensOf(usage),
      !.researchSteps =
         Append(@, [iter |-> s.i + 1, totalTokenCount |-> TokensOf(usage),
                    sources |-> sources]),
      !.report = Append(@, Note("content", s.i + 1)),
      !.noUsage = IF usage = Undefined THEN @ + 1 ELSE @,
      !.outcomes = Append(@, "ok"),
      !.responses = Append(@, [outcome |-> "ok", usage |-> usage, sources |-> sources]),
      !.i = @ + 1,
      !.pc = "loop", !.chat = "none" ]

\* the try body after the research call returned: the tokens are added, the
\* step is recorded with the sources found in the content
RecordStep(s, usage, sources) ==
  [ s EXCEPT
      !.cumulativeTokens = @ + TokensOf(usage),
      !.consecutiveFailures = 0,
      !.researchSteps =
         Append(@, [iter |-> s.i + 1, totalTokenCount |-> TokensOf(usage),
                    sources |-> sources]),
      !.report = Append(@, Note("content", s.i + 1)),
      !.noUsage = IF usage = Undefined THEN @ + 1 ELSE @,
      !.outcomes = Append(@, "ok"),
      !.responses = Append(@, [outcome |-> "ok", usage |-> usage, sources |-> sources]),
      !.i = @ + 1,
      !.pc = "loop", !.chat = "none" ]

\* the research call returned a response whose content holds no URL
ResearchSuccess(r) ==
  LET s == run[r]
  IN  /\ s.pc = "chat" /\ s.phase = "research" /\ s.chat = "backend"
      /\ \E usage \in UsageChoices(s) :
           run' = [run EXCEPT ![r] = RecordStep(s, usage, << >>)]
      /\ UNCHANGED << catalogVars, caller, calc >>

\* the URLs matched in the content of a response that cites its sources, in
\* the order of the matches
CitedUrls ==
  { << "https://a.example" >>,
    << "https://b.example", "https://a.example", "https://b.example" >> }

\* the research call returned a response whose content cites URLs
ResearchSuccessCited(r) ==
  LET s == run[r]
  IN  /\ s.pc = "chat" /\ s.phase = "research" /\ s.chat = "backend"
      /\ \E urls \in CitedUrls :
           run' = [run EXCEPT ![r] = RecordStep(s, Some(TokensPerCall), SetOrder(urls))]
      /\ UNCHANGED << catalogVars, caller, calc >>

\* allSources: the sources of the steps added to one Set, step by step
RECURSIVE StepSources(_)
StepSources(steps) ==
  IF steps = << >> THEN << >> ELSE Head(steps).sources \o StepSources(Tail(steps))

\* the sources of the steps listed one after the other, without the Set
AllSources_Concatenated(steps) == StepSources(steps)

AllSources(steps) == SetOrder(StepSources(steps))

\* the response record of a call that threw
Thrown == [outcome |-> "fail", usage |-> Undefined, sources |-> << >>]

\* the catch block of the research call, the same for every error
CatchResearchError(s) ==
  LET consecutiveFailures == s.consecutiveFailures + 1
  IN  IF FailFast(consecutiveFailures, Len(s.researchSteps))
        THEN [ s EXCEPT !.consecutiveFailures = consecutiveFailures,
                        !.outcomes = Append(@, "fail"),
                        !.responses = Append(@, Thrown),
                        !.pc = "done", !.chat = "none",
                        !.result = "RESEARCH_ITERATIONS_FAILING" ]
        ELSE [ s EXCEPT !.consecutiveFailures = consecutiveFailures,
                        !.outcomes = Append(@, "fail"),
                        !.responses = Append(@, Thrown),
                        !.report = Append(@, Note("failed", s.i + 1)),
                        !.i = @ + 1,
                        !.pc = "loop", !.chat = "none" ]

\* the research call threw: the catch block
ResearchFailure(r) ==
  LET s == run[r]
  IN  /\ s.pc = "chat" /\ s.phase = "research" /\ s.chat = "backend"
      /\ run' = [run EXCEPT ![r] = CatchResearchError(s)]
      /\ UNCHANGED << catalogVars, caller, calc >>

\* the research call threw the error chat raises for a response blocked by
\* the safety filters: the same catch block
ResearchBlocked(r) ==
  LET s == run[r]
  IN  /\ s.pc = "chat" /\ s.phase = "research" /\ s.chat = "backend"
      /\ run' = [run EXCEPT ![r] =
                   [ CatchResearchError(s) EXCEPT !.blockedCalls = @ \cup { Len(s.calls) } ]]
      /\ UNCHANGED << catalogVars, caller, calc >>

\* Math.min(synthesisReserve, modelContextWindow - cumulativeTokens - 10000)
AvailableForSynthesis(synthesisReserve, modelContextWindow, cumulativeTokens) ==
  Min(synthesisReserve, modelContextWindow - cumulativeTokens - SynthesisSafetyMargin)

\* the allowance in characters taken whole for each step
MaxCharsPerStep_Undivided(maxTokens, stepCount) == maxTokens * CharsPerToken

\* buildSynthesisContext: Math.floor((maxTokens * 4) / steps.length), the
\* floor of a quotient that is negative when maxTokens is
MaxCharsPerStep(maxTokens, stepCount) == (maxTokens * CharsPerToken) \div stepCount

\* the end of execute: sources, statistics, createToolResult(true, report)
Finish(s) ==
  [ s EXCEPT !.report = @ \o << Note("sources", Len(AllSources(s.researchSteps))),
                                Note("stats", Len(s.researchSteps)) >>,
             !.allSources = AllSources(s.researchSteps),
             !.pc = "done", !.chat = "none", !.result = "success" ]

\* after the loop: the zero-success check, then the synthesis call if any
AfterLoop(r) ==
  LET s == run[r]
      branch == EnsureBranch(modelsInitialized, initializationPromise)
      availableForSynthesis ==
        AvailableForSynthesis(s.synthesisReserve, s.modelContextWindow, s.cumulativeTokens)
  IN  /\ s.pc = "afterLoop"
      /\ IF AllIterationsFailed(Len(s.researchSteps))
           THEN /\ run' = [run EXCEPT ![r].pc = "done",
                                      ![r].result = "ALL_ITERATIONS_FAILED"]
                /\ UNCHANGED catalogVars
         ELSE IF NeedsSynthesis(Len(s.researchSteps))
           THEN /\ run' = [run EXCEPT
                             ![r].pc = "chat", ![r].phase = "synthesis",
                             ![r].report = Append(@, Note("synthesisHeader", 0)),
                             ![r].availableForSynthesis = availableForSynthesis,
                             ![r].maxCharsPerStep =
                                MaxCharsPerStep(availableForSynthesis, Len(s.researchSteps)),
                             ![r].calls = Append(@, ChatRequest("synthesis", 0,
                                                                SynthesisPrompt(s, availableForSynthesis),
                                                                s.model, SynthesisTemperature10,
                                                                FALSE, SynthesisMaxTokens)),
                             ![r].chat = EnsureWait(branch)]
                /\ EnsureEnter(branch)
         ELSE /\ run' = [run EXCEPT ![r] = Finish(s)]
              /\ UNCHANGED catalogVars
      /\ UNCHANGED << caller, calc >>

\* the synthesis call returned a response
SynthesisSuccess(r) ==
  LET s == run[r]
  IN  /\ s.pc = "chat" /\ s.phase = "synthesis" /\ s.chat = "backend"
      /\ \E usage \in { Undefined, Some(TokensPerCall) } :
           run' = [run EXCEPT ![r] =
                     Finish([ s EXCEPT !.cumulativeTokens = @ + TokensOf(usage),
                                       !.synthesisOutcome = "ok",
                                       !.synthesisTokens = TokensOf(usage),
                                       !.report = Append(@, Note("synthesisContent", 0)) ])]
      /\ UNCHANGED << catalogVars, caller, calc >>

\* the synthesis call threw and the error reaches the outer catch
SynthesisFailure_Fatal(r) ==
  LET s == run[r]
  IN  /\ s.pc = "chat" /\ s.phase = "synthesis" /\ s.chat = "backend"
      /\ run' = [run EXCEPT ![r].synthesisOutcome = "fail", ![r].pc = "done",
                            ![r].chat = "none", ![r].result = "UNKNOWN_ERROR"]
      /\ UNCHANGED << catalogVars, caller, calc >>

\* the synthesis call threw: a note and the placeholder sentence
SynthesisFailure(r) ==
  LET s == run[r]
  IN  /\ s.pc = "chat" /\ s.phase = "synthesis" /\ s.chat = "backend"
      /\ run' = [run EXCEPT ![r] =
                   Finish([ s EXCEPT !.synthesisOutcome = "fail",
                                     !.report = @ \o << Note("synthesisError", 0),
                                                        Note("placeholder", 0) >> ])]
      /\ UNCHANGED << catalogVars, caller, calc >>

\* the messages of the McpErrors thrown inside execute, named by their codes
McpErrorMessages ==
  { "RESEARCH_ITERATIONS_FAILING", "ALL_ITERATIONS_FAILED" }

\* the message texts that hold a "Try:" list of things to do next: the two
\* McpErrors of the loop and the content string of the catch block
TextsWithTry ==
  { "RESEARCH_ITERATIONS_FAILING", "ALL_ITERATIONS_FAILED", "Deep research failed" }

\* createToolResult(success, content, error): one text item, the content
\* itself or "Error: " and the error's message; the item carries no flag
createToolResult(success, content, error) ==
  IF success THEN [isErrorText |-> FALSE, text |-> content]
  ELSE [isErrorText |-> TRUE, text |-> IF error # "" THEN error ELSE content]

\* what execute returns for a finished run: its try block returns the report,
\* its catch block returns the text of the error; execute never throws
executeReturn(s) ==
  IF s.result = "success" THEN createToolResult(TRUE, "report", "")
  ELSE IF s.result \in McpErrorMessages
         THEN createToolResult(FALSE, s.result, s.result)
         ELSE createToolResult(FALSE, "Deep research failed", s.result)

\* what the gemini_deep_research handler returns to the registry once
\* execute has returned: the try block's return statement
handlerReturn(s) ==
  LET result == executeReturn(s)
  IN  [ content |-> result,
        structuredContent |-> [content |-> result.text, success |-> TRUE] ]

(***************************************************************************)
(* Specification of one deep-research run in a fresh process.              *)
(***************************************************************************)
CatalogInit ==
  /\ modelsInitialized = FALSE
  /\ initializationPromise = "null"
  /\ availableModels = getFallbackModels
  /\ defaultModel = ConfigDefaultModel
  /\ discoveryCalls = 0
  /\ discoveryOutcome = "none"

Init ==
  /\ CatalogInit
  /\ allowExperimental = FALSE
  /\ caller = [c \in CallerIds |-> OffCaller]
  /\ run = [r \in RunIds |-> IF r = 1 THEN IdleRun ELSE OffRun]
  /\ calc = NoCalc

RunNext(r) ==
  \/ InvokeTool(r)
  \/ ExecuteDirect(r)
  \/ ExecuteWithoutArgs(r)
  \/ LoopTop(r)
  \/ RunEnsureResume(r)
  \/ ResearchSuccess(r)
  \/ ResearchFailure(r)
  \/ AfterLoop(r)
  \/ SynthesisSuccess(r)
  \/ SynthesisFailure(r)

Next ==
  \/ \E r \in RunIds : RunNext(r)
  \/ DiscoveryFails
  \/ DiscoverySucceeds

Spec == Init /\ [][Next]_vars

(***************************************************************************)
(* The same run under the scheduling of the event loop: a continuation     *)
(* runs once the promise it awaits is settled, and every call made to the  *)
(* backend (generateContent, the model listing) returns or fails.          *)
(***************************************************************************)
\* the max_iterations values below the schema's minimum that execute is
\* called with directly: no pass of the loop, and one pass
SmallIterationsArgs == { Some(-1), Some(1) }

\* execute called on the tool object with a small max_iterations
ExecuteDirectSmall(r) ==
  /\ run[r].pc = "idle"
  /\ \E arg \in SmallIterationsArgs, modelArg \in ModelArgs :
       run' = [run EXCEPT ![r] = ExecuteStart(r, "direct", arg, modelArg)]
  /\ UNCHANGED << catalogVars, caller, calc >>

NextLive ==
  \/ \E r \in RunIds : InvokeTool(r)
  \/ \E r \in RunIds : ExecuteDirectSmall(r)
  \/ \E r \in RunIds : ExecuteWithoutArgs(r)
  \/ \E r \in RunIds : LoopTop(r)
  \/ \E r \in RunIds : RunEnsureResume(r)
  \/ \E r \in RunIds : ResearchSuccess(r)
  \/ \E r \in RunIds : ResearchFailure(r)
  \/ \E r \in RunIds : AfterLoop(r)
  \/ \E r \in RunIds : SynthesisSuccess(r)
  \/ \E r \in RunIds : SynthesisFailure(r)
  \/ DiscoveryFails
  \/ DiscoverySucceeds

Fairness ==
  /\ \A r \in RunIds :
        /\ WF_vars(LoopTop(r))
        /\ WF_vars(AfterLoop(r))
        /\ WF_vars(RunEnsureResume(r))
        /\ WF_vars(ResearchSuccess(r) \/ ResearchFailure(r))
        /\ WF_vars(SynthesisSuccess(r) \/ SynthesisFailure(r))
  /\ WF_vars(DiscoverySucceeds \/ DiscoveryFails)

SpecLive == Init /\ [][NextLive]_vars /\ Fairness

(***************************************************************************)
(* The research loop of execute as a function of the run's own arguments   *)
(* and of the sequence of responses the backend gave to its calls: what    *)
(* the locals of execute hold when the run is the only one of the process. *)
(***************************************************************************)
LoopStart(maxIterations) ==
  [ i |-> 0, cumulativeTokens |-> 0, consecutiveFailures |-> 0,
    researchSteps |-> << >>, report |-> << Note("plan", maxIterations) >>,
    at |-> "loop" ]

\* the passes of the for loop over the responses; at: "inFlight" when the
\* next call has no response yet, "thrown" after the fail-fast McpError,
\* "left" once the loop has been left
RECURSIVE LoopAlone(_, _, _, _)
LoopAlone(a, maxIterations, researchBudget, responses) ==
  IF ~(a.i < maxIterations) THEN [a EXCEPT !.at = "left"]
  ELSE IF a.cumulativeTokens >= researchBudget
    THEN [a EXCEPT !.report = Append(@, Note("budgetStop", a.i + 1)), !.at = "left"]
  ELSE LET called == [a EXCEPT !.report = Append(@, Note("iteration", a.i + 1))]
       IN  IF responses = << >> THEN [called EXCEPT !.at = "inFlight"]
           ELSE LET response == Head(responses)
                IN  IF response.outcome = "fail"
                      THEN IF a.consecutiveFailures + 1 >= 2 /\ Len(a.researchSteps) = 0
                             THEN [called EXCEPT !.consecutiveFailures = @ + 1,
                                                 !.at = "thrown"]
                             ELSE LoopAlone([called EXCEPT
                                               !.consecutiveFailures = @ + 1,
                                               !.report = Append(@, Note("failed", a.i + 1)),
                                               !.i = @ + 1],
                                            maxIterations, researchBudget, Tail(responses))
                      ELSE LoopAlone([called EXCEPT
                                        !.cumulativeTokens = @ + TokensOf(response.usage),
                                        !.consecutiveFailures = 0,
                                        !.researchSteps =
                                           Append(@, [iter |-> a.i + 1,
                                                      totalTokenCount |-> TokensOf(response.usage),
                                                      sources |-> response.sources]),
                                        !.report = Append(@, Note("content", a.i + 1)),
                                        !.i = @ + 1],
                                     maxIterations, researchBudget, Tail(responses))

(***************************************************************************)
(* Specification of two deep-research runs of one server process, each     *)
(* started by its own call of the registered tool: the handler makes a new *)
(* GeminiDeepResearchTool per call, and both share the GeminiService.      *)
(***************************************************************************)
\* a client calls the registered tool with the smallest number of
\* iterations the schema accepts and no model
InvokeToolShort(r) ==
  /\ run[r].pc = "idle"
  /\ run' = [run EXCEPT ![r] =
               ExecuteStart(r, "registry",
                            maxIterationsSchema(Some(SchemaMinIterations)), "")]
  /\ UNCHANGED << catalogVars, caller, calc >>

InitTwoRuns ==
  /\ CatalogInit
  /\ allowExperimental = FALSE
  /\ caller = [c \in CallerIds |-> OffCaller]
  /\ run = [r \in RunIds |-> IdleRun]
  /\ calc = NoCalc

NextTwoRuns ==
  \/ \E r \in RunIds : InvokeToolShort(r)
  \/ \E r \in RunIds : LoopTop(r)
  \/ \E r \in RunIds : RunEnsureResume(r)
  \/ \E r \in RunIds : RunPromiseResume(r)
  \/ \E r \in RunIds : ResearchSuccess(r)
  \/ \E r \in RunIds : ResearchFailure(r)
  \/ \E r \in RunIds : AfterLoop(r)
  \/ \E r \in RunIds : SynthesisSuccess(r)
  \/ \E r \in RunIds : SynthesisFailure(r)
  \/ DiscoveryFails
  \/ DiscoverySucceeds

SpecTwoRuns == InitTwoRuns /\ [][NextTwoRuns]_vars

(***************************************************************************)
(* Specification of two short runs started by direct calls of execute with *)
(* no model, a model of the fallback list or a model no list holds, before *)
(* or after the discovery.                                                 *)
(***************************************************************************)
NamedModelArgs == { "", "gemini-pro", "custom-model" }

\* execute called on the tool object with max_iterations 2 and a model
ExecuteDirectNamed(r) ==
  /\ run[r].pc = "idle"
  /\ \E modelArg \in NamedModelArgs :
       run' = [run EXCEPT ![r] = ExecuteStart(r, "direct", Some(2), modelArg)]
  /\ UNCHANGED << catalogVars, caller, calc >>

NextResolve ==
  \/ \E r \in RunIds : ExecuteDirectNamed(r)
  \/ \E r \in RunIds : LoopTop(r)
  \/ \E r \in RunIds : RunEnsureResume(r)
  \/ \E r \in RunIds : RunPromiseResume(r)
  \/ \E r \in RunIds : ResearchSuccess(r)
  \/ \E r \in RunIds : ResearchFailure(r)
  \/ \E r \in RunIds : AfterLoop(r)
  \/ \E r \in RunIds : SynthesisSuccess(r)
  \/ \E r \in RunIds : SynthesisFailure(r)
  \/ DiscoveryFails
  \/ DiscoverySucceeds

SpecResolve == InitTwoRuns /\ [][NextResolve]_vars

(***************************************************************************)
(* Specification of one deep-research run with focus areas against a       *)
(* backend whose safety filters can block a response.                      *)
(***************************************************************************)
NextSafety ==
  \/ \E r \in RunIds : InvokeToolFocused(r)
  \/ \E r \in RunIds : LoopTop(r)
  \/ \E r \in RunIds : RunEnsureResume(r)
  \/ \E r \in RunIds : ResearchSuccess(r)
  \/ \E r \in RunIds : ResearchFailure(r)
  \/ \E r \in RunIds : ResearchBlocked(r)
  \/ \E r \in RunIds : AfterLoop(r)
  \/ \E r \in RunIds : SynthesisSuccess(r)
  \/ \E r \in RunIds : SynthesisFailure(r)
  \/ DiscoveryFails
  \/ DiscoverySucceeds

SpecSafety == Init /\ [][NextSafety]_vars

(***************************************************************************)
(* Specification of one deep-research run called through the registry      *)
(* whose responses may cite URLs.                                          *)
(***************************************************************************)
NextCited ==
  \/ \E r \in RunIds : InvokeTool(r)
  \/ \E r \in RunIds : LoopTop(r)
  \/ \E r \in RunIds : RunEnsureResume(r)
  \/ \E r \in RunIds : ResearchSuccess(r)
  \/ \E r \in RunIds : ResearchSuccessCited(r)
  \/ \E r \in RunIds : ResearchFailure(r)
  \/ \E r \in RunIds : AfterLoop(r)
  \/ \E r \in RunIds : SynthesisSuccess(r)
  \/ \E r \in RunIds : SynthesisFailure(r)
  \/ DiscoveryFails
  \/ DiscoverySucceeds

SpecCited == Init /\ [][NextCited]_vars

(***************************************************************************)
(* Specification of concurrent chat / listModels calls in a fresh process. *)
(***************************************************************************)
InitCatalog ==
  /\ CatalogInit
  /\ allowExperimental \in BOOLEAN
  /\ caller = [c \in CallerIds |-> IdleCaller]
  /\ run = [r \in RunIds |-> OffRun]
  /\ calc = NoCalc

NextCatalog ==
  \/ \E c \in CallerIds : CallService(c)
  \/ \E c \in CallerIds : CallerEnsureResume(c)
  \/ \E c \in CallerIds : CallerPromiseResume(c)
  \/ \E c \in CallerIds : ChatReturns(c)
  \/ DiscoveryFails
  \/ DiscoverySucceeds

SpecCatalog == InitCatalog /\ [][NextCatalog]_vars

(***************************************************************************)
(* Specification of the budget derivation at the head of execute, for the  *)
(* context windows of the fallback list, of the discovered list, the       *)
(* default window and every small window.                                  *)
(***************************************************************************)
MaxWindow == 120

WindowsOf(models) == { models[k].contextWindow : k \in 1..Len(models) }

ContextWindows ==
  (1..MaxWindow) \cup WindowsOf(getFallbackModels)
                 \cup UNION { WindowsOf(l) : l \in DiscoveredLists }
                 \cup { FallbackContextWindow }

InitBudget ==
  /\ CatalogInit
  /\ allowExperimental = FALSE
  /\ caller = [c \in CallerIds |-> OffCaller]
  /\ run = [r \in RunIds |-> OffRun]
  /\ \E w \in ContextWindows :
       calc = [fn |-> "budget", modelContextWindow |-> w, done |-> FALSE,
               researchBudget |-> 0, synthesisReserve |-> 0]

\* const synthesisReserve = ...; const researchBudget = ...
DeriveBudgets ==
  /\ calc.fn = "budget" /\ ~calc.done
  /\ calc' = [calc EXCEPT !.done = TRUE,
                          !.researchBudget = ResearchBudgetOf(calc.modelContextWindow),
                          !.synthesisReserve = SynthesisReserveOf(calc.modelContextWindow)]
  /\ UNCHANGED << catalogVars, caller, run >>

NextBudget == DeriveBudgets

SpecBudget == InitBudget /\ [][NextBudget]_vars

(***************************************************************************)
(* Texts built from the responses of the research steps.  A text is the    *)
(* sequence of its pieces: a piece is a label, the first chars characters  *)
(* of the response of a step, an ellipsis or a separator, and has a        *)
(* length in characters.                                                   *)
(***************************************************************************)
Piece(kind, step, chars) == [kind |-> kind, step |-> step, chars |-> chars]

RECURSIVE TextLength(_)
TextLength(text) ==
  IF text = << >> THEN 0 ELSE Head(text).chars + TextLength(Tail(text))

\* the decimal digits of a step number
Digits(n) == IF n < 10 THEN 1 ELSE 2

\* response.substring(0, end) of the response of a step, length characters
\* long: an end below 0 counts as 0, an end beyond the length as the length
Substring(step, length, end) == Piece("response", step, Max(0, Min(end, length)))

\* `Previous finding ${i + 1}: ` and `Research Iteration ${i + 1}:\n`
FindingLabel(step) == Piece("findingLabel", step, 19 + Digits(step))
IterationLabel(step) == Piece("iterationLabel", step, 21 + Digits(step))
Ellipsis(step) == Piece("ellipsis", step, 3)
Break(step) == Piece("break", step, 2)

\* the stop test without the 0.8 share
ExceedsMaxChars_WholeAllowance(length, maxTokens) ==
  length > maxTokens * CharsPerToken

\* length > maxChars, with maxChars = maxTokens * 4 * 0.8
ExceedsMaxChars(length, maxTokens) ==
  10 * length > maxTokens * CharsPerToken * ContextShare10

\* stepSummary of buildSmartContext for the step numbered step
StepSummary(step, length) ==
  LET summaryLength == Min(SummaryChars, length)
  IN  << FindingLabel(step), Substring(step, length, summaryLength) >>
        \o (IF summaryLength < length THEN << Ellipsis(step) >> ELSE << >>)
        \o << Break(step) >>

(***************************************************************************)
(* Specification of buildSmartContext, one pass of its loop per step.      *)
(***************************************************************************)
MaxSteps == 3

\* the lengths of the responses of the steps
ResponseLengths == { 0, 5, SummaryChars, SummaryChars + 1 }

StepSequences == UNION { [1..n -> ResponseLengths] : n \in 0..MaxSteps }

\* the values of maxTokens: none left, room for less than one short summary,
\* for one, for one long summary less its ellipsis, for one, two and three
ContextAllowances == { -1, 0, 8, 9, 320, 330, 650, 1000 }

PureInit ==
  /\ CatalogInit
  /\ allowExperimental = FALSE
  /\ caller = [c \in CallerIds |-> OffCaller]
  /\ run = [r \in RunIds |-> OffRun]

InitSmartContext ==
  /\ PureInit
  /\ \E steps \in StepSequences, maxTokens \in ContextAllowances :
       calc = [fn |-> "buildSmartContext", steps |-> steps, maxTokens |-> maxTokens,
               i |-> Len(steps), context |-> << >>, currentLength |-> 0,
               done |-> FALSE]

\* one pass of the for loop, from the last step down; i is the number of the
\* step looked at (the code's i + 1)
SmartContextPass ==
  /\ calc.fn = "buildSmartContext" /\ ~calc.done
  /\ calc.i >= 1
  /\ LET stepSummary == StepSummary(calc.i, calc.steps[calc.i])
     IN  calc' = IF ExceedsMaxChars(calc.currentLength + TextLength(stepSummary),
                                    calc.maxTokens)
                   THEN [calc EXCEPT !.done = TRUE]
                   ELSE [calc EXCEPT !.context = stepSummary \o @,
                                     !.currentLength = @ + TextLength(stepSummary),
                                     !.i = @ - 1]
  /\ UNCHANGED << catalogVars, caller, run >>

\* return '' for no steps, return context once the loop has run out
SmartContextReturn ==
  /\ calc.fn = "buildSmartContext" /\ ~calc.done
  /\ calc.i = 0
  /\ calc' = [calc EXCEPT !.done = TRUE]
  /\ UNCHANGED << catalogVars, caller, run >>

NextSmartContext == SmartContextPass \/ SmartContextReturn

SpecSmartContext == InitSmartContext /\ [][NextSmartContext]_vars

(***************************************************************************)
(* Specification of buildSynthesisContext.                                 *)
(***************************************************************************)
\* the values of maxTokens (availableForSynthesis): negative ones, none, and
\* room for part of, for all but one character of and for all of the responses
SynthesisAllowances == { -12000, -1, 0, 1, 2, 250, 751, 200000 }

NonEmptyStepSequences == { steps \in StepSequences : Len(steps) > 0 }

\* the text the map callback returns for the step numbered step
SynthesisPart(step, length, maxCharsPerStep) ==
  << IterationLabel(step) >>
    \o (IF length > maxCharsPerStep
          THEN << Substring(step, length, maxCharsPerStep), Ellipsis(step) >>
          ELSE << Piece("response", step, length) >>)

\* steps.map(...).join('\n\n') up to the step numbered n
RECURSIVE JoinParts(_, _, _)
JoinParts(steps, n, maxCharsPerStep) ==
  IF n = 0 THEN << >>
  ELSE IF n = 1 THEN SynthesisPart(1, steps[1], maxCharsPerStep)
  ELSE JoinParts(steps, n - 1, maxCharsPerStep)
         \o << Break(n - 1) >> \o SynthesisPart(n, steps[n], maxCharsPerStep)

InitSynthesisContext ==
  /\ PureInit
  /\ \E steps \in NonEmptyStepSequences, maxTokens \in SynthesisAllowances :
       calc = [fn |-> "buildSynthesisContext", steps |-> steps, maxTokens |-> maxTokens,
               maxCharsPerStep |-> 0, context |-> << >>, done |-> FALSE]

\* buildSynthesisContext(steps, maxTokens)
BuildSynthesisContext ==
  /\ calc.fn = "buildSynthesisContext" /\ ~calc.done
  /\ LET maxCharsPerStep == MaxCharsPerStep(calc.maxTokens, Len(calc.steps))
     IN  calc' = [calc EXCEPT !.maxCharsPerStep = maxCharsPerStep,
                              !.context = JoinParts(calc.steps, Len(calc.steps),
                                                    maxCharsPerStep),
                              !.done = TRUE]
  /\ UNCHANGED << catalogVars, caller, run >>

NextSynthesisContext == BuildSynthesisContext

SpecSynthesisContext == InitSynthesisContext /\ [][NextSynthesisContext]_vars

(***************************************************************************)
(* Specification of selectDefaultModel on the lists a discovery can return.*)
(***************************************************************************)
MaxModels == 3

\* the names of the models a list is made of
ListedNames ==
  { "gemini-2.5-flash", "gemini-2.5-pro", "gemini-1.5-pro", "gemini-pro",
    "gemini-3.0-pro-preview", "gemini-2.0-flash-exp",
    "gemma-3-27b-it", "learnlm-2.0-flash-experimental" }

\* the lists of up to MaxModels models of different names
ModelLists ==
  { l \in UNION { [1..n -> [name : ListedNames, contextWindow : { FallbackContextWindow }]]
                    : n \in 0..MaxModels } :
      \A j, k \in 1..Len(l) : j # k => l[j].name # l[k].name }

InitSelect ==
  /\ PureInit
  /\ \E models \in ModelLists, allow \in BOOLEAN :
       calc = [fn |-> "selectDefaultModel", models |-> models,
               allowExperimentalModels |-> allow, selected |-> "", done |-> FALSE]

\* this.selectDefaultModel(models)
SelectDefault ==
  /\ calc.fn = "selectDefaultModel" /\ ~calc.done
  /\ calc' = [calc EXCEPT !.selected = selectDefaultModel(calc.models,
                                                          calc.allowExperimentalModels),
                          !.done = TRUE]
  /\ UNCHANGED << catalogVars, caller, run >>

NextSelect == SelectDefault

SpecSelect == InitSelect /\ [][NextSelect]_vars

(***************************************************************************)
(* Specification of addInlineCitations on the grounding metadata of a      *)
(* response.                                                               *)
(***************************************************************************)
MaxChunks == 2
MaxSupports == 2

\* a grounding chunk: its web.uri, or "" when it has none
Chunks == { [uri |-> "https://a.example"], [uri |-> "https://b.example"], [uri |-> ""] }

ChunkLists == UNION { [1..n -> Chunks] : n \in 0..MaxChunks }

\* the groundingChunkIndices of a support: none, indices in and out of
\* range (counted from 0), repeated ones and a negative one
IndexLists ==
  { << >>, << 0 >>, << 1 >>, << 2 >>, << 0, 1 >>, << 1, 0 >>, << 0, 0 >>,
    << -1 >>, << 0, -1 >> }

SupportLists == UNION { [1..n -> IndexLists] : n \in 0..MaxSupports }

\* the numbers of webSearchQueries of the metadata
QueryCounts == { 0, 1 }

\* the indices in the order the two nested loops visit them
RECURSIVE VisitOrder(_)
VisitOrder(supports) ==
  IF supports = << >> THEN << >> ELSE Head(supports) \o VisitOrder(Tail(supports))

\* the body of the inner loop.  chunks[chunkIndex] is undefined for a
\* negative index, which passes the test of the if, and reading .web of
\* undefined throws a TypeError.
CiteChunk(acc, chunkIndex, chunks) ==
  IF acc.threw THEN acc
  ELSE IF chunkIndex < Len(chunks) /\ chunkIndex \notin acc.usedChunkIndices
    THEN IF chunkIndex < 0
           THEN [acc EXCEPT !.threw = TRUE]
           ELSE LET uri == chunks[chunkIndex + 1].uri
                IN  IF uri # ""
                      THEN [acc EXCEPT !.citationLinks = Append(@, uri),
                                       !.usedChunkIndices = @ \cup { chunkIndex }]
                      ELSE acc
    ELSE acc

RECURSIVE CiteChunks(_, _, _)
CiteChunks(acc, indices, chunks) ==
  IF indices = << >> THEN acc
  ELSE CiteChunks(CiteChunk(acc, Head(indices), chunks), Tail(indices), chunks)

\* what addInlineCitations appends to the text: the links of the Sources line
\* (no line when there is none), whether the line of the search queries
\* follows, or the TypeError it throws
addInlineCitations(supports, chunks, webSearchQueries) ==
  LET plain == [threw |-> FALSE, citationLinks |-> << >>, searchLine |-> FALSE]
      cited == CiteChunks([threw |-> FALSE, citationLinks |-> << >>,
                           usedChunkIndices |-> {}],
                          VisitOrder(supports), chunks)
  IN  IF webSearchQueries > 0 /\ Len(supports) = 0 /\ Len(chunks) = 0
        THEN [plain EXCEPT !.searchLine = TRUE]
      ELSE IF Len(supports) = 0 \/ Len(chunks) = 0
        THEN plain
      ELSE IF cited.threw
        THEN [plain EXCEPT !.threw = TRUE]
      ELSE [threw |-> FALSE, citationLinks |-> cited.citationLinks,
            searchLine |-> webSearchQueries > 0]

\* what chat does with the outcome of addInlineCitations: it returns the
\* response, or its outer catch wraps the TypeError in a GeminiError
\* ("Error generating response: ...") and throws that
chatAfterCitations(result) == IF result.threw THEN "GeminiError" ELSE "ok"

InitCitations ==
  /\ PureInit
  /\ \E supports \in SupportLists, chunks \in ChunkLists, queries \in QueryCounts :
       calc = [fn |-> "addInlineCitations", supports |-> supports, chunks |-> chunks,
               webSearchQueries |-> queries,
               result |-> [threw |-> FALSE, citationLinks |-> << >>, searchLine |-> FALSE],
               chat |-> "none", done |-> FALSE]

\* this.addInlineCitations(responseText, groundingMetadata) in chat, up to
\* chat's return or throw
AddInlineCitations ==
  /\ calc.fn = "addInlineCitations" /\ ~calc.done
  /\ LET result == addInlineCitations(calc.supports, calc.chunks, calc.webSearchQueries)
     IN  calc' = [calc EXCEPT !.result = result,
                              !.chat = chatAfterCitations(result),
                              !.done = TRUE]
  /\ UNCHANGED << catalogVars, caller, run >>

NextCitations == AddInlineCitations

SpecCitations == InitCitations /\ [][NextCitations]_vars

(***************************************************************************)
(* Specification of extractSources.  A content is a sequence of tokens:    *)
(* the scheme "https://", a run of four word characters, one word          *)
(* character, a punctuation mark of [.,;:], a closing parenthesis, a blank.*)
(***************************************************************************)
MaxContent == 5
MinSourceLength == 10

Tokens == { "https://", "path", "x", ".", ")", " " }

TokenLength(t) ==
  CASE t = "https://" -> 8
    [] t = "path"     -> 4
    [] OTHER          -> 1

RECURSIVE CharLength(_)
CharLength(text) ==
  IF text = << >> THEN 0 ELSE TokenLength(Head(text)) + CharLength(Tail(text))

\* the tokens [^\s)] does not match
UrlStops == { " ", ")" }

Contents == UNION { [1..n -> Tokens] : n \in 0..MaxContent }

\* content.match(/https?:\/\/[^\s)]+/g) from position pos on: the matches
\* from left to right, each as long as it can be, none overlapping
RECURSIVE MatchUrls(_, _)
MatchUrls(content, pos) ==
  IF pos > Len(content) THEN << >>
  ELSE IF /\ content[pos] = "https://"
          /\ pos < Len(content)
          /\ content[pos + 1] \notin UrlStops
    THEN LET end == CHOOSE e \in (pos + 1)..Len(content) :
                      /\ \A k \in (pos + 1)..e : content[k] \notin UrlStops
                      /\ e = Len(content) \/ content[e + 1] \in UrlStops
         IN  << SubSeq(content, pos, end) >> \o MatchUrls(content, end + 1)
    ELSE MatchUrls(content, pos + 1)

\* the url kept with its trailing punctuation
CleanUrl_Keep(url) == url

\* url.replace(/[.,;:]+$/, '')
RECURSIVE CleanUrl(_)
CleanUrl(url) ==
  IF url # << >> /\ url[Len(url)] = "."
    THEN CleanUrl(SubSeq(url, 1, Len(url) - 1))
    ELSE url

\* the forEach: the cleaned matches longer than 10 characters
RECURSIVE CleanSources(_)
CleanSources(matches) ==
  IF matches = << >> THEN << >>
  ELSE LET cleanUrl == CleanUrl(Head(matches))
       IN  (IF CharLength(cleanUrl) > MinSourceLength THEN << cleanUrl >> ELSE << >>)
             \o CleanSources(Tail(matches))

extractSources(content) == SetOrder(CleanSources(MatchUrls(content, 1)))

\* the entries of a list joined by blanks
RECURSIVE JoinByBlank(_)
JoinByBlank(sources) ==
  IF sources = << >> THEN << >>
  ELSE IF Len(sources) = 1 THEN sources[1]
  ELSE sources[1] \o << " " >> \o JoinByBlank(Tail(sources))

InitSources ==
  /\ PureInit
  /\ \E content \in Contents :
       calc = [fn |-> "extractSources", content |-> content, sources |-> << >>,
               again |-> << >>, pass |-> 0]

\* const sources = this.extractSources(searchResponse.content)
ExtractSources ==
  /\ calc.fn = "extractSources" /\ calc.pass = 0
  /\ calc' = [calc EXCEPT !.sources = extractSources(calc.content), !.pass = 1]
  /\ UNCHANGED << catalogVars, caller, run >>

\* extractSources applied to its own output, joined by blanks
ExtractSourcesAgain ==
  /\ calc.fn = "extractSources" /\ calc.pass = 1
  /\ calc' = [calc EXCEPT !.again = extractSources(JoinByBlank(calc.sources)),
                          !.pass = 2]
  /\ UNCHANGED << catalogVars, caller, run >>

NextSources == ExtractSources \/ ExtractSourcesAgain

SpecSources == InitSources /\ [][NextSources]_vars

(***************************************************************************)
(* Specification of chat on what the backend does with one request:        *)
(* generateContent resolves or rejects, the response may carry a block     *)
(* reason, response.text() returns or throws, the first candidate may      *)
(* carry a finish reason and grounding metadata.                           *)
(***************************************************************************)
\* the grounding metadata of a response: none, or supports, chunks and the
\* number of search queries
GroundingSupports == { << >>, << << 0 >> >>, << << 2 >> >>, << << -1 >> >> }
GroundingChunks ==
  { << >>, << [uri |-> "https://a.example"] >>, << [uri |-> ""] >> }

GroundingMetadata ==
  { Undefined }
    \cup { Some([supports |-> su, chunks |-> ch, webSearchQueries |-> q]) :
             su \in GroundingSupports, ch \in GroundingChunks, q \in QueryCounts }

BackendResponses ==
  [ generateContent : { "resolves", "rejects" },
    blockReason : BOOLEAN,
    text : { "returns", "throws" },
    finishReason : BOOLEAN,
    groundingMetadata : GroundingMetadata ]

NoError == [class |-> "none", message |-> "none", cause |-> "none"]
Raise(class, message) == [class |-> class, message |-> message, cause |-> "none"]

\* the try block of chat after ensureModelsInitialized: the first error
\* raised in it, or NoError when it reaches the return statement
chatTry(response) ==
  IF response.generateContent = "rejects" THEN Raise("Error", "backend")
  ELSE IF response.blockReason THEN Raise("GeminiError", "Response was blocked")
  ELSE IF response.text = "throws"
    THEN IF response.finishReason
           THEN Raise("GeminiError", "Response was filtered")
           ELSE Raise("GeminiError", "No text content in response")
  ELSE IF response.groundingMetadata # Undefined
    THEN LET g == ValueOf(response.groundingMetadata)
         IN  IF addInlineCitations(g.supports, g.chunks, g.webSearchQueries).threw
               THEN Raise("TypeError", "Cannot read properties of undefined")
               ELSE NoError
  ELSE NoError

\* the catch block that lets every error through as it is
chatCatch_Rethrow(error) == error

\* the catch block of chat: a GeminiError is thrown again, any other error
\* is wrapped: new GeminiError(`Error generating response: ${message}`)
chatCatch(error) ==
  IF error.class = "GeminiError" THEN error
  ELSE [class |-> "GeminiError", message |-> "Error generating response",
        cause |-> error.message]

\* chat: the response it returns, or the error that leaves it
chat(response) ==
  LET error == chatTry(response)
  IN  IF error = NoError THEN [returned |-> TRUE, error |-> NoError]
      ELSE [returned |-> FALSE, error |-> chatCatch(error)]

InitChat ==
  /\ PureInit
  /\ \E response \in BackendResponses :
       calc = [fn |-> "chat", response |-> response,
               result |-> [returned |-> FALSE, error |-> NoError], done |-> FALSE]

Chat ==
  /\ calc.fn = "chat" /\ ~calc.done
  /\ calc' = [calc EXCEPT !.result = chat(calc.response), !.done = TRUE]
  /\ UNCHANGED << catalogVars, caller, run >>

NextChat == Chat

SpecChat == InitChat /\ [][NextChat]_vars

(***************************************************************************)
(* Statements about the program.                                           *)
(***************************************************************************)
Range(q) == { q[k] : k \in 1..Len(q) }

Started(s) == s.pc \notin { "off", "idle", "rejected" }

ResearchCalls(s) == { k \in 1..Len(s.calls) : s.calls[k].kind = "research" }
SynthesisCalls(s) == { k \in 1..Len(s.calls) : s.calls[k].kind = "synthesis" }

\* the state of run r in which its research call is in flight
ResearchInFlight(s) == s.pc = "chat" /\ s.phase = "research" /\ s.chat = "backend"
SynthesisInFlight(s) == s.pc = "chat" /\ s.phase = "synthesis" /\ s.chat = "backend"

\* C1: a run whose first two research calls both failed has aborted with the
\* multi-failure error after exactly those two calls, whatever max_iterations
\* is: no third research call and no synthesis call is issued.
C1_FailFastAborts ==
  \A r \in RunIds :
    LET s == run[r]
    IN  (Len(s.outcomes) >= 2 /\ s.outcomes[1] = "fail" /\ s.outcomes[2] = "fail")
          => /\ s.pc = "done"
             /\ s.result = "RESEARCH_ITERATIONS_FAILING"
             /\ Len(s.outcomes) = 2
             /\ Len(s.calls) = 2

C1_Witness ==
  \E r \in RunIds :
    /\ run[r].outcomes = << "fail", "fail" >>
    /\ run[r].maxIterations = IterationCap
    /\ run[r].pc = "done"

\* C2 (step): when a loop pass starts with cumulativeTokens >= researchBudget,
\* the pass leaves the loop without a backend call and appends the early-stop
\* note for that iteration.
C2_StopStep(r) ==
  LET s == run[r]
  IN  (/\ s.pc = "loop"
       /\ s.i < s.maxIterations
       /\ s.cumulativeTokens >= s.researchBudget
       /\ run'[r] # s)
        => /\ run'[r].pc = "afterLoop"
           /\ run'[r].calls = s.calls
           /\ run'[r].report = Append(s.report, Note("budgetStop", s.i + 1))

\* C2 (state): once the early-stop note for iteration k is in the report, no
\* research call for iteration k or a later one has been issued, and while
\* the budget is exhausted no research call is in flight.
C2_NoLaterCall(r) ==
  LET s == run[r]
  IN  /\ \A k \in 1..IterationCap :
           Note("budgetStop", k) \in Range(s.report)
             => \A c \in ResearchCalls(s) : s.calls[c].iter < k
      /\ (s.pc = "chat" /\ s.phase = "research")
           => s.cumulativeTokens < s.researchBudget

\* C2: budget-exhaustion guard: if cumulativeTokens >= researchBudget when
\* iteration k is about to start, no research call is made for iteration k or
\* a later one, and the report holds the early-stop note.
C2_BudgetGuard ==
  /\ [][\A r \in RunIds : C2_StopStep(r)]_vars
  /\ [](\A r \in RunIds : C2_NoLaterCall(r))

C2_Witness ==
  \E r \in RunIds :
    /\ run[r].pc = "done"
    /\ run[r].result = "success"
    /\ \E k \in 2..IterationCap :
         /\ Note("budgetStop", k) \in Range(run[r].report)
         /\ k < run[r].maxIterations

\* the largest total token count of a single backend call of the run so far
LargestCall(s) ==
  LET counts == { s.researchSteps[k].totalTokenCount : k \in 1..Len(s.researchSteps) }
                  \cup { s.synthesisTokens }
  IN  CHOOSE t \in counts : \A u \in counts : u <= t

\* C3 as stated: in every state of a run, synthesis included, cumulativeTokens
\* exceeds researchBudget by no more than the total token count of a single
\* backend call.
C3_OvershootOneCall ==
  \A r \in RunIds :
    Started(run[r])
      => run[r].cumulativeTokens - run[r].researchBudget <= LargestCall(run[r])

\* C3 amended: the tokens spent by the research rounds exceed researchBudget
\* by less than the token count of the last recorded research step, and
\* cumulativeTokens exceeds that only by the token count of the synthesis
\* call, which is added without a budget check.
C3_OvershootResearchRound ==
  \A r \in RunIds :
    LET s == run[r]
        research == s.cumulativeTokens - s.synthesisTokens
    IN  Started(s)
          => \/ research <= s.researchBudget
             \/ /\ Len(s.researchSteps) > 0
                /\ research - s.researchBudget
                     < s.researchSteps[Len(s.researchSteps)].totalTokenCount

C3_Witness ==
  \E r \in RunIds :
    /\ run[r].pc = "done"
    /\ run[r].synthesisTokens > 0
    /\ run[r].cumulativeTokens - run[r].synthesisTokens > run[r].researchBudget

FailureNotes(s) == { k \in 1..Len(s.report) : s.report[k].kind = "failed" }

\* C4 (step): a research call that fails after at least one recorded step
\* appends exactly one failure note for its iteration, records no step, keeps
\* the run going and moves the loop to the next iteration.
C4_FailureStep(r) ==
  LET s == run[r]
  IN  (/\ ResearchInFlight(s)
       /\ Len(s.researchSteps) >= 1
       /\ run'[r].outcomes = Append(s.outcomes, "fail"))
        => /\ run'[r].pc = "loop"
           /\ run'[r].result = "none"
           /\ run'[r].i = s.i + 1
           /\ run'[r].report = Append(s.report, Note("failed", s.i + 1))
           /\ run'[r].researchSteps = s.researchSteps

\* C4 (scenario): success, failure, success, success, success with five
\* planned iterations ends in a success report with four recorded steps and
\* one failure note, the one of iteration 2.
C4_ScenarioC(r) ==
  LET s == run[r]
  IN  (/\ s.pc = "done"
       /\ s.maxIterations = DefaultIterations
       /\ s.outcomes = << "ok", "fail", "ok", "ok", "ok" >>)
        => /\ s.result = "success"
           /\ Len(s.researchSteps) = 4
           /\ { s.report[k] : k \in FailureNotes(s) } = { Note("failed", 2) }
           /\ Cardinality(FailureNotes(s)) = 1

\* C4: a research call that fails after at least one success never aborts the
\* run: one failure note, no step, on to the next iteration; and the scenario
\* success, failure, success, success, success of five iterations ends in
\* success with four steps and the failure note of iteration 2.
C4_TransientFailure ==
  /\ [][\A r \in RunIds : C4_FailureStep(r)]_vars
  /\ [](\A r \in RunIds : C4_ScenarioC(r))

C4_Witness ==
  \E r \in RunIds :
    /\ run[r].pc = "done"
    /\ run[r].maxIterations = DefaultIterations
    /\ run[r].outcomes = << "ok", "fail", "ok", "ok", "ok" >>

\* C5 (step): when the loop has been left with no recorded step, the run
\* fails with the zero-success error and issues no call.
C5_ZeroStep(r) ==
  LET s == run[r]
  IN  (s.pc = "afterLoop" /\ Len(s.researchSteps) = 0 /\ run'[r] # s)
        => /\ run'[r].pc = "done"
           /\ run'[r].result = "ALL_ITERATIONS_FAILED"
           /\ run'[r].calls = s.calls

\* C5 (state): a success report holds at least one research step, and a
\* synthesis call is never issued with no recorded step.
C5_NoEmptySuccess(r) ==
  LET s == run[r]
  IN  /\ s.result = "success" => Len(s.researchSteps) >= 1
      /\ Len(s.researchSteps) = 0 => SynthesisCalls(s) = {}

\* C5: a loop left with zero recorded steps fails the run with the
\* zero-success error; no success report is without a research step, and no
\* synthesis runs without one.
C5_ZeroSuccessFails ==
  /\ [][\A r \in RunIds : C5_ZeroStep(r)]_vars
  /\ [](\A r \in RunIds : C5_NoEmptySuccess(r))

C5_Witness ==
  \E r \in RunIds :
    /\ run[r].result = "ALL_ITERATIONS_FAILED"
    /\ run[r].outcomes = << "fail" >>

\* C6 as stated: no value of max_iterations is rejected, and every started
\* run plans between 3 and 10 iterations and issues at most 10 research calls.
C6_IterationsClamped ==
  \A r \in RunIds :
    /\ run[r].pc # "rejected"
    /\ Started(run[r])
         => /\ run[r].maxIterations >= SchemaMinIterations
            /\ run[r].maxIterations <= SchemaMaxIterations
            /\ Cardinality(ResearchCalls(run[r])) <= SchemaMaxIterations

\* C7: at most one synthesis call is issued; it is the last call, made after
\* the loop with at least two recorded steps and with grounding disabled; and
\* a run that ends in success has issued it exactly when it recorded at least
\* two steps, so a run with one step succeeds without it.
C7_SynthesisIffTwoSteps ==
  \A r \in RunIds :
    LET s == run[r]
    IN  /\ Cardinality(SynthesisCalls(s)) <= 1
        /\ \A k \in SynthesisCalls(s) :
             /\ k = Len(s.calls)
             /\ s.calls[k].grounding = FALSE
             /\ Len(s.researchSteps) >= 2
             /\ s.pc \in { "chat", "done" }
             /\ s.pc = "chat" => s.phase = "synthesis"
        /\ (s.pc = "done" /\ Len(s.researchSteps) >= 2) => SynthesisCalls(s) # {}
        /\ (s.pc = "done" /\ Len(s.researchSteps) = 1)
             => s.result = "success" /\ SynthesisCalls(s) = {}

C7_Witness ==
  \E r \in RunIds :
    /\ run[r].pc = "done"
    /\ Len(run[r].researchSteps) = 2
    /\ Len(run[r].outcomes) = 3
    /\ SynthesisCalls(run[r]) # {}

C7_WitnessOneStep ==
  \E r \in RunIds :
    /\ run[r].pc = "done"
    /\ Len(run[r].researchSteps) = 1
    /\ Len(run[r].outcomes) = 3
    /\ run[r].result = "success"

StepContents(s) == { Note("content", s.researchSteps[k].iter) : k \in 1..Len(s.researchSteps) }

\* C8 (step): whatever the synthesis call does, the run ends with a success report
\* that holds every recorded finding; when the call fails the report also
\* holds the note about the error and the placeholder sentence, and
\* cumulativeTokens is what it was before the call.
C8_SynthesisStep(r) ==
  LET s == run[r]
  IN  (SynthesisInFlight(s) /\ run'[r] # s)
        => /\ run'[r].pc = "done"
           /\ run'[r].result = "success"
           /\ StepContents(s) \subseteq Range(run'[r].report)
           /\ run'[r].researchSteps = s.researchSteps
           /\ run'[r].synthesisOutcome = "fail"
                => /\ Note("synthesisError", 0) \in Range(run'[r].report)
                   /\ Note("placeholder", 0) \in Range(run'[r].report)
                   /\ run'[r].cumulativeTokens = s.cumulativeTokens

\* C8: a failure of the synthesis call never fails the run (the step
\* statement above, for every run).
C8_SynthesisFailureNotFatal == [][\A r \in RunIds : C8_SynthesisStep(r)]_vars

C8_Witness ==
  \E r \in RunIds :
    /\ run[r].pc = "done"
    /\ run[r].synthesisOutcome = "fail"
    /\ run[r].outcomes = << "ok", "ok", "ok" >>

\* C9: the model-list discovery request is issued at most once per process,
\* however many calls arrive and whenever they arrive, also after the one
\* attempt has failed.
C9_SingleDiscovery ==
  /\ discoveryCalls <= 1
  /\ discoveryOutcome # "none" => discoveryCalls = 1 /\ initializationPromise = "resolved"

C9_Witness ==
  /\ discoveryOutcome = "failed"
  /\ \A c \in CallerIds : caller[c].pc = "done"
  /\ \E c \in CallerIds : caller[c].branch = "join"
  /\ \E c \in CallerIds : caller[c].branch = "start"

\* C10: a call that has got past ensureModelsInitialized (its backend chat
\* request is issued, or it has returned) finds the discovery attempt
\* completed, and the list returned by listModels is the catalog left by
\* that one attempt: the discovered list, or the fallback list when it failed.
C10_CallersAwaitDiscovery ==
  \A c \in CallerIds :
    caller[c].pc \in { "backend", "done" }
      => /\ initializationPromise = "resolved"
         /\ discoveryOutcome # "none"
         /\ (caller[c].op = "listModels")
              => /\ caller[c].models = availableModels
                 /\ discoveryOutcome = "failed" => caller[c].models = getFallbackModels

C10_Witness ==
  \E c, d \in CallerIds :
    /\ caller[c].branch = "join" /\ caller[c].pc = "done" /\ caller[c].op = "listModels"
    /\ caller[d].branch = "start" /\ caller[d].pc = "backend"
    /\ discoveryOutcome = "discovered"

\* C11 (step): the call whose ensureModelsInitialized started the discovery
\* goes on as if the discovery had not failed: chat issues its backend
\* request, listModels returns the fallback list, and the service is marked
\* initialized.
C11_TriggerProceeds(c) ==
  (/\ discoveryOutcome = "failed"
   /\ caller[c].pc = "initWait"
   /\ caller'[c] # caller[c])
    => /\ modelsInitialized'
       /\ caller[c].op = "chat" => caller'[c].pc = "backend" /\ caller'[c].result = "none"
       /\ caller[c].op = "listModels"
            => /\ caller'[c].pc = "done"
               /\ caller'[c].result = "ok"
               /\ caller'[c].models = getFallbackModels

\* C11 (state): after a failed discovery the catalog is the fallback list
\* and the default model is the configured one.
C11_FallbackKept ==
  discoveryOutcome = "failed"
    => /\ availableModels = getFallbackModels
       /\ defaultModel = ConfigDefaultModel
       /\ \A c \in CallerIds :
            (caller[c].pc = "done" /\ caller[c].op = "listModels")
              => caller[c].result = "ok" /\ caller[c].models = getFallbackModels

\* C11: a failed discovery is never fatal and never surfaced: the model set
\* stays the fallback list, the default model is unchanged, and the chat or
\* listModels call that triggered the discovery proceeds normally.
C11_DiscoveryFailureAbsorbed ==
  /\ [][\A c \in CallerIds : C11_TriggerProceeds(c)]_vars
  /\ []C11_FallbackKept

C11_Witness ==
  /\ discoveryOutcome = "failed"
  /\ \E c, d \in CallerIds :
       /\ caller[c].branch = "start" /\ caller[c].op = "listModels"
       /\ caller[c].pc = "done" /\ caller[c].models = getFallbackModels
       /\ caller[d].branch = "join" /\ caller[d].op = "chat" /\ caller[d].pc = "backend"

\* C12 as stated: the result the gemini_deep_research handler delivers for a
\* finished invocation is marked success=true exactly when a report was
\* produced, and success=false with the error's message when the run failed.
C12_FailureDeliveredAsFailure ==
  \A r \in RunIds :
    (run[r].pc = "done" /\ run[r].via = "registry")
      => LET delivered == handlerReturn(run[r])
         IN  /\ delivered.structuredContent.success <=> run[r].result = "success"
             /\ delivered.content.isErrorText <=> run[r].result # "success"

\* C13 as stated: once a research call has failed because its response was
\* blocked by the safety filters, the run issues no later backend call with
\* the same request (same prompt, model and parameters).
C13_BlockedRequestNotReissued ==
  \A r \in RunIds :
    \A k \in run[r].blockedCalls :
      \A j \in (k + 1)..Len(run[r].calls) :
        RequestOf(run[r].calls[j]) # RequestOf(run[r].calls[k])

\* C14: for every context window W the derived researchBudget is the
\* integer b with b <= 0.75 W < b + 1 and the derived synthesisReserve is the
\* integer r with r <= 0.20 W < r + 1, so researchBudget + synthesisReserve
\* never exceeds W.
C14_BudgetsAreFloors ==
  (calc.fn = "budget" /\ calc.done)
    => LET w == calc.modelContextWindow
           b == calc.researchBudget
           r == calc.synthesisReserve
       IN  /\ 4 * b <= 3 * w /\ 3 * w < 4 * (b + 1)
           /\ 5 * r <= w /\ w < 5 * (r + 1)
           /\ b + r <= w

C14_Witness ==
  /\ calc.fn = "budget" /\ calc.done
  /\ calc.modelContextWindow = 1048576
  /\ calc.researchBudget = 786432
  /\ calc.synthesisReserve = 209715

\* C15 as stated: a run that reaches the synthesis phase issues the synthesis
\* call whatever the allowance min(synthesisReserve, W - cumulativeTokens -
\* 10000) is, and the per-step truncation length the compactor computes from
\* it is never negative.
C15_TruncationLengthNeverNegative ==
  \A r \in RunIds :
    LET s == run[r]
    IN  (s.pc \in { "chat", "done" } /\ Len(s.researchSteps) >= 2 /\ s.phase = "synthesis")
          => /\ SynthesisCalls(s) # {}
             /\ s.availableForSynthesis
                  <= s.modelContextWindow - s.cumulativeTokens + s.synthesisTokens
                       - SynthesisSafetyMargin
             /\ s.availableForSynthesis <= s.synthesisReserve
             /\ s.maxCharsPerStep >= 0

\* the steps that have a piece in a text, and the pieces of one kind of a step
StepsIn(text) == { text[p].step : p \in 1..Len(text) }
PiecesOf(text, kind, step) ==
  { p \in 1..Len(text) : text[p].kind = kind /\ text[p].step = step }

\* the length of the whole summary of a step whose response has that length
SummaryLength(step, length) ==
  19 + Digits(step) + Min(length, SummaryChars)
    + (IF length > SummaryChars THEN 3 ELSE 0) + 2

\* C16: the context buildSmartContext returns is made of the whole summaries
\* (label, the first min(1000, length) characters of the response, an
\* ellipsis when the response is longer, separator) of a contiguous
\* most-recent suffix of the steps, in chronological order; what it includes
\* stays within maxTokens * 4 * 0.8 characters; and the newest step left
\* out is one whose summary would have taken the total over that bound.
C16_RecencyBiasedContext ==
  (calc.fn = "buildSmartContext" /\ calc.done)
    => LET n == Len(calc.steps)
           context == calc.context
           total == TextLength(context)
       IN  /\ \E j \in 1..(n + 1) :
                /\ StepsIn(context) = j..n
                /\ j > 1 => 10 * (total + SummaryLength(j - 1, calc.steps[j - 1]))
                               > calc.maxTokens * 32
           /\ \A p, q \in 1..Len(context) : p < q => context[p].step <= context[q].step
           /\ \A k \in StepsIn(context) :
                /\ Cardinality(PiecesOf(context, "findingLabel", k)) = 1
                /\ Cardinality(PiecesOf(context, "response", k)) = 1
                /\ Cardinality(PiecesOf(context, "break", k)) = 1
                /\ Cardinality(PiecesOf(context, "ellipsis", k))
                     = IF calc.steps[k] > SummaryChars THEN 1 ELSE 0
                /\ \A p \in PiecesOf(context, "response", k) :
                     /\ context[p].chars = Min(calc.steps[k], SummaryChars)
                     /\ context[p - 1].kind = "findingLabel"
           /\ total = 0 \/ 10 * total <= calc.maxTokens * 32

\* two of three steps are included, the oldest is left out whole
C16_Witness ==
  /\ calc.fn = "buildSmartContext" /\ calc.done
  /\ Len(calc.steps) = 3
  /\ StepsIn(calc.context) = { 2, 3 }
  /\ calc.steps[3] > SummaryChars

\* C17: the synthesis context holds every step exactly once, in order: one
\* label and one response text per step, none left out.  The response text
\* is the first floor(maxTokens * 4 / stepCount) characters of the response
\* (the whole response when it is no longer than that, nothing when that
\* number is negative), followed by an ellipsis exactly when the response is
\* longer than that number.
C17_SynthesisContextKeepsEveryStep ==
  (calc.fn = "buildSynthesisContext" /\ calc.done)
    => LET n == Len(calc.steps)
           context == calc.context
           budgetChars == calc.maxTokens * 4
           perStep == calc.maxCharsPerStep
       IN  /\ perStep * n <= budgetChars /\ budgetChars < (perStep + 1) * n
           /\ StepsIn(context) = 1..n
           /\ \A p, q \in 1..Len(context) : p < q => context[p].step <= context[q].step
           /\ \A k \in 1..n :
                /\ Cardinality(PiecesOf(context, "iterationLabel", k)) = 1
                /\ Cardinality(PiecesOf(context, "response", k)) = 1
                /\ \A p \in PiecesOf(context, "response", k) :
                     /\ context[p].chars = Min(calc.steps[k], Max(0, perStep))
                     /\ context[p - 1].kind = "iterationLabel"
                /\ Cardinality(PiecesOf(context, "ellipsis", k))
                     = IF calc.steps[k] > perStep THEN 1 ELSE 0

\* three steps, the allowance leaves 333 characters for each: the long
\* responses are cut and the short one is whole
C17_Witness ==
  /\ calc.fn = "buildSynthesisContext" /\ calc.done
  /\ Len(calc.steps) = 3
  /\ calc.maxTokens = 250
  /\ calc.maxCharsPerStep = 333
  /\ calc.steps[1] > 333 /\ calc.steps[2] < 333 /\ calc.steps[3] > 333

\* a negative allowance: the quotient is rounded down and nothing is kept
C17_WitnessNegative ==
  /\ calc.fn = "buildSynthesisContext" /\ calc.done
  /\ Len(calc.steps) = 3
  /\ calc.maxTokens = -1
  /\ calc.maxCharsPerStep = -2
  /\ TextLength(calc.context) = 3 * 22 + 3 * 3 + 2 * 2

NamesOf(models) == { models[k].name : k \in 1..Len(models) }
GeminiNames(models) == { n \in NamesOf(models) : NameTraits(n).gemini }
StableNames(names) == { n \in names : ~NameTraits(n).experimental }

Selected == calc.fn = "selectDefaultModel" /\ calc.done

\* C18 as stated: with allowExperimentalModels false the selected name is
\* not flagged experimental whenever the list holds a name that is not
\* flagged, and a non-empty list always yields one of its names.
C18_NoExperimentalDefault ==
  (Selected /\ ~calc.allowExperimentalModels)
    => /\ StableNames(NamesOf(calc.models)) # {}
            => ~NameTraits(calc.selected).experimental
       /\ calc.models # << >> => calc.selected \in NamesOf(calc.models)

\* C18 amended: with allowExperimentalModels false the selected name is not
\* flagged experimental whenever the names containing 'gemini' include one
\* that is not flagged; when they are all flagged one of them is returned;
\* when no name contains 'gemini' the first model's name is returned
\* whatever its flag; a non-empty list always yields one of its names.
C18_NoExperimentalGeminiDefault ==
  (Selected /\ ~calc.allowExperimentalModels)
    => LET gemini == GeminiNames(calc.models)
       IN  /\ StableNames(gemini) # {} => calc.selected \in StableNames(gemini)
           /\ (gemini # {} /\ StableNames(gemini) = {}) => calc.selected \in gemini
           /\ (gemini = {} /\ calc.models # << >>) => calc.selected = calc.models[1].name
           /\ calc.models # << >> => calc.selected \in NamesOf(calc.models)

\* a flagged name comes first and would win on version, a stable one is returned
C18_Witness ==
  /\ Selected /\ ~calc.allowExperimentalModels
  /\ Len(calc.models) = 3
  /\ calc.models[1].name = "gemini-3.0-pro-preview"
  /\ calc.models[2].name = "gemini-2.0-flash-exp"
  /\ calc.selected = "gemini-1.5-pro"

\* every name containing 'gemini' is flagged: one of them is returned
C18_WitnessAllExperimental ==
  /\ Selected /\ ~calc.allowExperimentalModels
  /\ NamesOf(calc.models) = { "gemini-3.0-pro-preview", "gemini-2.0-flash-exp" }
  /\ calc.selected = "gemini-3.0-pro-preview"

\* the names left after the keyword filter and the filter on flagged names
Remaining(models, allowExperimentalModels) ==
  IF ~allowExperimentalModels /\ StableNames(GeminiNames(models)) # {}
    THEN StableNames(GeminiNames(models))
    ELSE GeminiNames(models)

\* C19: when some name contains 'gemini', the selected name is one of the
\* names left after the two filters, no name left has a greater version
\* number, and the selected name contains 'flash' whenever a name left with
\* that greatest version does.
C19_NewestThenFlash ==
  (Selected /\ GeminiNames(calc.models) # {})
    => LET remaining == Remaining(calc.models, calc.allowExperimentalModels)
           newest == { n \in remaining :
                         \A m \in remaining :
                           NameTraits(n).version10 >= NameTraits(m).version10 }
       IN  /\ calc.selected \in newest
           /\ (\E n \in newest : NameTraits(n).flash) => NameTraits(calc.selected).flash

\* two names share the greatest version and the one with 'flash' is listed last
C19_Witness ==
  /\ Selected
  /\ Len(calc.models) = 3
  /\ calc.models[1].name = "gemini-1.5-pro"
  /\ calc.models[2].name = "gemini-2.5-pro"
  /\ calc.models[3].name = "gemini-2.5-flash"
  /\ calc.selected = "gemini-2.5-flash"

\* the indices, counted from 0, that some support refers to
ReferencedIndices(supports) == Range(VisitOrder(supports))

\* C20 as stated: when the metadata has supports and chunks and the call
\* returns, no URL appears twice in the Sources line and every URL in it is
\* the URI of a chunk that some support refers to.
C20_SourcesDeduplicated ==
  (/\ calc.fn = "addInlineCitations" /\ calc.done
   /\ calc.supports # << >> /\ calc.chunks # << >>
   /\ ~calc.result.threw)
    => LET links == calc.result.citationLinks
       IN  /\ \A p, q \in 1..Len(links) : p # q => links[p] # links[q]
           /\ \A p \in 1..Len(links) :
                \E k \in ReferencedIndices(calc.supports) :
                  /\ k >= 0 /\ k < Len(calc.chunks)
                  /\ calc.chunks[k + 1].uri = links[p]

Cited == calc.fn = "addInlineCitations" /\ calc.done

\* the URIs of the chunks that have one and that a support refers to with an
\* index in range
CitableUris ==
  { calc.chunks[k + 1].uri :
      k \in { j \in ReferencedIndices(calc.supports) : j >= 0 /\ j < Len(calc.chunks) } }
    \ { "" }

\* C21 as stated: whatever chunk indices the supports carry (in range, beyond
\* the end, negative) and whether or not the chunks have a URI, the chat call
\* returns, and with supports and chunks present its Sources line holds
\* exactly the URIs of the chunks that can be cited.
C21_BadReferencesSkipped ==
  Cited
    => /\ calc.chat = "ok"
       /\ (calc.supports # << >> /\ calc.chunks # << >>)
            => Range(calc.result.citationLinks) = CitableUris

\* C22 as stated: whenever addInlineCitations returns for metadata with at
\* least one search query, the line of the search queries is appended,
\* whether supports and chunks are empty or not; with no supports, no chunks
\* and no search query nothing is appended.
C22_SearchQueriesAlwaysListed ==
  (Cited /\ ~calc.result.threw)
    => /\ calc.webSearchQueries > 0 => calc.result.searchLine
       /\ (calc.supports = << >> /\ calc.chunks = << >> /\ calc.webSearchQueries = 0)
            => /\ calc.result.citationLinks = << >>
               /\ ~calc.result.searchLine

\* the place of the first match of the content that cleans to a given entry
FirstSeen(content, entry) ==
  LET matches == MatchUrls(content, 1)
  IN  CHOOSE k \in 1..Len(matches) :
        /\ CleanUrl(matches[k]) = entry
        /\ \A j \in 1..(k - 1) : CleanUrl(matches[j]) # entry

\* C23: the list extractSources returns has no entry twice, is in the order
\* in which the entries are first matched in the content, holds only entries
\* longer than 10 characters that do not end in a punctuation mark; and
\* extractSources applied to the entries joined by blanks returns that list.
C23_SourcesCleanAndIdempotent ==
  (calc.fn = "extractSources" /\ calc.pass >= 1)
    => LET sources == calc.sources
       IN  /\ \A p, q \in 1..Len(sources) : p # q => sources[p] # sources[q]
           /\ \A p, q \in 1..Len(sources) :
                p < q => FirstSeen(calc.content, sources[p]) < FirstSeen(calc.content, sources[q])
           /\ \A p \in 1..Len(sources) :
                /\ CharLength(sources[p]) > 10
                /\ sources[p][Len(sources[p])] # "."
                /\ sources[p][1] = "https://"
           /\ calc.pass = 2 => calc.again = sources

\* a url with trailing punctuation is cleaned and found again as it is
C23_Witness ==
  /\ calc.fn = "extractSources" /\ calc.pass = 2
  /\ calc.content = << "https://", "path", ".", ".", ")" >>
  /\ calc.sources = << << "https://", "path" >> >>
  /\ calc.again = calc.sources

\* the same url matched twice is listed once
C23_WitnessDuplicate ==
  /\ calc.fn = "extractSources" /\ calc.pass = 2
  /\ calc.content = << "https://", "path", " ", "https://", "path" >>
  /\ Len(calc.sources) = 1

IterationSections(s) == { k \in 1..Len(s.report) : s.report[k].kind = "iteration" }

\* scenario A: a finished run of the registered tool with five planned
\* iterations in which no call failed and every recorded response cites URLs
ScenarioA(s) ==
  /\ s.pc = "done" /\ s.via = "registry"
  /\ s.maxIterations = DefaultIterations
  /\ \A k \in 1..Len(s.outcomes) : s.outcomes[k] = "ok"
  /\ s.synthesisOutcome # "fail"
  /\ \A k \in 1..Len(s.researchSteps) : s.researchSteps[k].sources # << >>

NoDuplicates(q) == \A j, k \in 1..Len(q) : j # k => q[j] # q[k]

\* C24 as stated: in scenario A the report holds five iteration sections, a
\* synthesis section and a non-empty source list without duplicates, and
\* cumulativeTokens is below the context window at completion.
C24_ScenarioA ==
  \A r \in RunIds :
    LET s == run[r]
    IN  ScenarioA(s)
          => /\ s.result = "success"
             /\ Cardinality(IterationSections(s)) = 5
             /\ Note("synthesisHeader", 0) \in Range(s.report)
             /\ s.allSources # << >> /\ NoDuplicates(s.allSources)
             /\ s.cumulativeTokens < s.modelContextWindow

\* C24 amended: in scenario A, when the budget guard did not stop the loop,
\* the report holds five iteration sections with five recorded steps, a
\* synthesis section and a non-empty source list without duplicates; the
\* tokens before the fifth call were below researchBudget, so
\* cumulativeTokens is below researchBudget plus the tokens of the fifth
\* call and of the synthesis call (which may be above the context window).
\* When the guard stopped the loop the report holds one section per call
\* made, and the source list is still non-empty and without duplicates.
C24_ScenarioAWithinBudget ==
  \A r \in RunIds :
    LET s == run[r]
        stopped == \E k \in 1..IterationCap : Note("budgetStop", k) \in Range(s.report)
        n == Len(s.researchSteps)
    IN  ScenarioA(s)
          => /\ s.result = "success"
             /\ s.allSources # << >> /\ NoDuplicates(s.allSources)
             /\ Cardinality(IterationSections(s)) = Cardinality(ResearchCalls(s))
             /\ ~stopped
                  => /\ Cardinality(IterationSections(s)) = 5
                     /\ n = 5
                     /\ Note("synthesisHeader", 0) \in Range(s.report)
                     /\ s.cumulativeTokens
                          < s.researchBudget + s.researchSteps[n].totalTokenCount
                              + s.synthesisTokens

\* five cited responses and a synthesis, with a URL cited by several steps
C24_Witness ==
  \E r \in RunIds :
    /\ ScenarioA(run[r])
    /\ Len(run[r].researchSteps) = 5
    /\ run[r].synthesisTokens > 0
    /\ Len(run[r].allSources) = 2
    /\ Len(StepSources(run[r].researchSteps)) > 5

\* C25: every failure result of execute carries remediation guidance in the
\* text returned to the caller: after the fail-fast abort, after the
\* zero-success failure and after any other exception caught by execute.
C25_FailuresCarryGuidance ==
  \A r \in RunIds :
    (run[r].pc = "done" /\ run[r].result # "success")
      => /\ executeReturn(run[r]).isErrorText
         /\ executeReturn(run[r]).text \in TextsWithTry

\* the part of C25 that holds: the two McpErrors of the loop reach the
\* caller with their own text, which holds the guidance
C25_LoopFailuresCarryGuidance ==
  \A r \in RunIds :
    (run[r].pc = "done" /\ run[r].result \in McpErrorMessages)
      => executeReturn(run[r]).text \in TextsWithTry

\* an exception that is not an McpError was caught by execute
C25_OtherException ==
  \E r \in RunIds :
    run[r].pc = "done" /\ run[r].result \notin McpErrorMessages \cup { "success" }

FailedCalls(s) == { k \in 1..Len(s.outcomes) : s.outcomes[k] = "fail" }

Alone(s) == LoopAlone(LoopStart(s.maxIterations), s.maxIterations, s.researchBudget,
                      s.responses)

\* C27 (step): a step of one run leaves the record of every other run as
\* it is.
C27_OwnRecordOnly ==
  \A r, q \in RunIds : (run'[r] # run[r] /\ q # r) => run'[q] = run[q]

\* C27 (state): the steps, the tokens counted for the research calls, the
\* consecutive-failure counter and the report of the loop are those the
\* run's loop alone produces from the responses to its own calls.
C27_AsAlone(r) ==
  LET s == run[r]
      a == Alone(s)
  IN  Started(s)
        => /\ s.researchSteps = a.researchSteps
           /\ s.cumulativeTokens = a.cumulativeTokens + s.synthesisTokens
           /\ s.consecutiveFailures = a.consecutiveFailures
           \* the function has already entered the pass the run is about to make
           /\ Len(s.report) >= Len(a.report) - 1
           /\ \A k \in 1..Len(s.report) :
                 k <= Len(a.report) => s.report[k] = a.report[k]
           /\ s.pc = "done" /\ s.result = "RESEARCH_ITERATIONS_FAILING"
                 <=> a.at = "thrown"

\* C27: the steps, cumulativeTokens, the consecutive-failure counter and the
\* report belong to one run: in every interleaving of two concurrent runs a
\* step of one run changes no value of the other, and each run's values are
\* what its responses alone produce.
C27_RunsIsolated ==
  /\ [][C27_OwnRecordOnly]_vars
  /\ [](\A r \in RunIds : C27_AsAlone(r))

\* the two runs planned with different context windows: one started before
\* the discovery, the other after it
C27_DifferentWindows ==
  /\ Started(run[1]) /\ Started(run[2])
  /\ run[1].modelContextWindow # run[2].modelContextWindow

\* both runs have a research call at the backend, one after a recorded
\* step and the other after a failed call
C27_Witness ==
  /\ ResearchInFlight(run[1]) /\ ResearchInFlight(run[2])
  /\ run[1].outcomes = << "ok" >> /\ run[1].cumulativeTokens = TokensPerCall
  /\ run[2].outcomes = << "fail" >> /\ run[2].consecutiveFailures = 1

\* the state of the run's state machine: 0 INIT, 1 ITERATING (the loop, up
\* to the checks that follow it), 2 SYNTHESIZING, 3 DONE or FAILED
StateRank(s) ==
  CASE s.pc \in { "off", "idle" } -> 0
    [] s.pc = "loop" \/ s.pc = "afterLoop" \/ (s.pc = "chat" /\ s.phase = "research") -> 1
    [] s.pc = "chat" /\ s.phase = "synthesis" -> 2
    [] OTHER -> 3

\* C28 (step): the states are visited in order, a finished run stays as it
\* is, and a run that has left the loop issues no research call.
C28_InOrder(r) ==
  LET s == run[r]
      t == run'[r]
  IN  /\ StateRank(t) >= StateRank(s)
      /\ StateRank(t) = 2 /\ StateRank(s) # 2 => StateRank(s) = 1
      /\ StateRank(s) = 3 => t = s
      /\ (s.pc = "afterLoop" \/ StateRank(s) >= 2)
            => /\ ResearchCalls(t) = ResearchCalls(s)
               /\ t.pc # "loop"

\* C28 (state): at most maxIterations research calls and one synthesis
\* call; a finished run has a success report or a failure.
C28_Bounded(r) ==
  LET s == run[r]
  IN  /\ Cardinality(ResearchCalls(s)) <= Max(s.maxIterations, 0)
      /\ Cardinality(SynthesisCalls(s)) <= 1
      /\ s.pc = "done"
            => s.result \in { "success", "TypeError" } \cup McpErrorMessages

\* C28: when every backend call returns or fails, every started run ends
\* with a success report or a failure after at most maxIterations research
\* calls and at most one synthesis call, passing through its states in
\* order and issuing no research call after the loop.
C28_RunTerminates ==
  /\ [][\A r \in RunIds : C28_InOrder(r)]_vars
  /\ [](\A r \in RunIds : C28_Bounded(r))
  /\ \A r \in RunIds : Started(run[r]) ~> run[r].pc = "done"

\* a run ended after all its planned research calls and a synthesis call
C28_Witness ==
  \E r \in RunIds :
    /\ run[r].pc = "done" /\ run[r].result = "success"
    /\ run[r].maxIterations = DefaultIterations
    /\ Cardinality(ResearchCalls(run[r])) = DefaultIterations
    /\ Cardinality(SynthesisCalls(run[r])) = 1

\* the backend calls of the run that have been issued and not yet settled
InFlightCalls(s) ==
  Len(s.calls) - Len(s.responses) - (IF s.synthesisOutcome # "none" THEN 1 ELSE 0)

\* C29 (step): a call is issued only when no call of the run is in flight.
C29_IssuedWhenIdle(r) ==
  Len(run'[r].calls) > Len(run[r].calls)
    => /\ InFlightCalls(run[r]) = 0
       /\ run[r].chat = "none"
       /\ Len(run'[r].calls) = Len(run[r].calls) + 1

\* C29 (state): at most one call of the run is in flight, and the c-th
\* research call was issued with the prompt and under the budget check of
\* the loop as it stands after the responses to the c-1 calls before it:
\* their steps recorded and their tokens added.
C29_Sequential(r) ==
  LET s == run[r]
  IN  /\ InFlightCalls(s) \in { 0, 1 }
      /\ InFlightCalls(s) = 1 <=> s.pc = "chat"
      /\ \A c \in ResearchCalls(s) :
            LET a == LoopAlone(LoopStart(s.maxIterations), s.maxIterations,
                               s.researchBudget, SubSeq(s.responses, 1, c - 1))
            IN  /\ Len(s.responses) >= c - 1
                /\ a.at = "inFlight"
                /\ a.cumulativeTokens < s.researchBudget
                /\ s.calls[c].iter = a.i + 1
                /\ s.calls[c].message.context =
                      (IF a.i > 0 /\ Len(a.researchSteps) > 0
                         THEN { << Len(a.researchSteps),
                                   s.researchBudget - a.cumulativeTokens >> }
                         ELSE {})

\* C29: the backend calls of one run are strictly sequential: at most one
\* is in flight, and the budget check and the prompt of an iteration are
\* computed after the call of the iteration before it has completed and its
\* tokens have been added to cumulativeTokens.
C29_CallsSequential ==
  /\ [][\A r \in RunIds : C29_IssuedWhenIdle(r)]_vars
  /\ [](\A r \in RunIds : C29_Sequential(r))

\* the third research call is in flight with a prompt that counts the
\* tokens of the two calls before it
C29_Witness ==
  \E r \in RunIds :
    /\ ResearchInFlight(run[r])
    /\ Len(run[r].calls) = 3 /\ Len(run[r].responses) = 2
    /\ run[r].cumulativeTokens = 2 * TokensPerCall
    /\ run[r].calls[3].message.context
          = { << 2, run[r].researchBudget - 2 * TokensPerCall >> }

\* C30 (step): what a step of run r does to cumulativeTokens and to the
\* step list, by the response that settled (none, a research response, a
\* synthesis response).
C30_TokenStep(r) ==
  LET s == run[r]
      t == run'[r]
      settled == Len(t.responses) = Len(s.responses) + 1
      response == t.responses[Len(t.responses)]
      synthesized == s.synthesisOutcome = "none" /\ t.synthesisOutcome # "none"
  IN  /\ t.cumulativeTokens >= s.cumulativeTokens
      /\ t.cumulativeTokens # s.cumulativeTokens
           => \/ /\ ResearchInFlight(s) /\ settled
                 /\ response.outcome = "ok" /\ response.usage # Undefined
                 /\ t.cumulativeTokens = s.cumulativeTokens + ValueOf(response.usage)
              \/ /\ SynthesisInFlight(s) /\ synthesized
                 /\ t.synthesisOutcome = "ok" /\ t.synthesisTokens > 0
                 /\ t.cumulativeTokens = s.cumulativeTokens + t.synthesisTokens
      /\ (settled /\ response.outcome = "ok" /\ response.usage # Undefined)
           => t.cumulativeTokens = s.cumulativeTokens + ValueOf(response.usage)
      /\ (settled /\ response.outcome = "fail")
           => /\ t.cumulativeTokens = s.cumulativeTokens
              /\ t.researchSteps = s.researchSteps
      /\ (settled /\ response.outcome = "ok" /\ response.usage = Undefined)
           => /\ t.cumulativeTokens = s.cumulativeTokens
              /\ t.result = "none" /\ t.pc = "loop"
              /\ Len(t.researchSteps) = Len(s.researchSteps) + 1
              /\ t.researchSteps[Len(t.researchSteps)].totalTokenCount = 0
      /\ (synthesized /\ t.synthesisOutcome = "fail")
           => /\ t.cumulativeTokens = s.cumulativeTokens
              /\ t.researchSteps = s.researchSteps
      /\ (synthesized /\ t.synthesisOutcome = "ok" /\ t.synthesisTokens = 0)
           => t.cumulativeTokens = s.cumulativeTokens /\ t.result = "success"
      /\ ~settled => t.researchSteps = s.researchSteps

\* C30: cumulativeTokens never decreases and changes only when a backend
\* call succeeds with usage metadata, by that call's total token count; a
\* failed call leaves cumulativeTokens and the steps unchanged, and a
\* success without usage metadata leaves cumulativeTokens unchanged and
\* records a step with zero usage.
C30_TokensCountUsage == [][\A r \in RunIds : C30_TokenStep(r)]_vars

\* a run that has recorded a step without usage metadata and a step with
\* it, after a failed call
C30_Witness ==
  \E r \in RunIds :
    /\ run[r].noUsage = 1
    /\ Len(run[r].researchSteps) = 2
    /\ run[r].researchSteps[1].totalTokenCount = 0
    /\ run[r].cumulativeTokens = TokensPerCall
    /\ FailedCalls(run[r]) # {}

\* the response is one chat cannot answer from: the call failed, the
\* response was blocked, it has no text, or the citations cannot be built
FailedResponse(response) ==
  \/ response.generateContent = "rejects"
  \/ response.blockReason
  \/ response.text = "throws"
  \/ /\ response.groundingMetadata # Undefined
     /\ LET g == ValueOf(response.groundingMetadata)
        IN  Len(g.supports) > 0 /\ Len(g.chunks) > 0
              /\ \E k \in 1..Len(VisitOrder(g.supports)) : VisitOrder(g.supports)[k] < 0

\* C31: every failure that leaves chat is a GeminiError: a safety block, a
\* response without text and any other exception of the call, the one of
\* the citation processing included; the message of a wrapped exception is
\* kept, and no failure ends in a returned response.
C31_FailuresClassified ==
  (calc.fn = "chat" /\ calc.done)
    => LET response == calc.response
           result == calc.result
       IN  /\ FailedResponse(response) <=> ~result.returned
           /\ ~result.returned => result.error.class = "GeminiError"
           /\ result.returned => result.error = NoError
           /\ (response.generateContent = "resolves" /\ response.blockReason)
                 => result.error.message = "Response was blocked"
           /\ response.generateContent = "rejects"
                 => result.error.cause = "backend"

\* the TypeError of the citation processing left chat as a GeminiError
C31_Witness ==
  /\ calc.fn = "chat" /\ calc.done
  /\ ~calc.result.returned
  /\ calc.result.error.class = "GeminiError"
  /\ calc.result.error.cause = "Cannot read properties of undefined"

\* the number of failed responses at the end of a response history
RECURSIVE TrailingFailures(_)
TrailingFailures(responses) ==
  IF responses = << >> \/ responses[Len(responses)].outcome # "fail" THEN 0
  ELSE 1 + TrailingFailures(SubSeq(responses, 1, Len(responses) - 1))

\* C32 (state): the counter is the number of research calls that failed
\* since the last research call that succeeded, or since the start; with
\* zero steps it is the number of research calls that have settled.
C32_CounterCountsTrailing(r) ==
  LET s == run[r]
  IN  /\ s.consecutiveFailures = TrailingFailures(s.responses)
      /\ Len(s.researchSteps) = 0 => s.consecutiveFailures = Len(s.responses)

\* C32 (step): a research call that succeeds sets the counter to 0, and
\* nothing else lowers it; a synthesis call leaves it as it is.
C32_CounterStep(r) ==
  LET s == run[r]
      t == run'[r]
      succeeded == /\ Len(t.responses) = Len(s.responses) + 1
                   /\ t.responses[Len(t.responses)].outcome = "ok"
  IN  /\ succeeded => t.consecutiveFailures = 0
      /\ t.consecutiveFailures < s.consecutiveFailures => succeeded /\ ResearchInFlight(s)
      /\ SynthesisInFlight(s) => t.consecutiveFailures = s.consecutiveFailures

\* C32: the consecutive-failure counter equals the number of research calls
\* that failed since the most recent successful research call or since the
\* start of the run; every successful research call resets it to 0 and
\* nothing else does.
C32_CounterIsTrailingFailures ==
  /\ [][\A r \in RunIds : C32_CounterStep(r)]_vars
  /\ [](\A r \in RunIds : C32_CounterCountsTrailing(r))

\* two failures in a row after a step, a success, then one failure
C32_Witness ==
  \E r \in RunIds :
    /\ run[r].outcomes = << "ok", "fail", "fail", "ok", "fail" >>
    /\ run[r].consecutiveFailures = 1

\* C33: once a research call of a run has succeeded, the run ends with a
\* success report whatever the later research calls and the synthesis call
\* do: the fail-fast guard and the zero-success check fail only runs without
\* a recorded step.
C33_SuccessAfterFirstStep ==
  /\ [](\A r \in RunIds :
          LET s == run[r]
          IN  /\ (s.pc = "done" /\ Len(s.researchSteps) >= 1) => s.result = "success"
              /\ s.result \in McpErrorMessages => Len(s.researchSteps) = 0
              /\ Len(s.researchSteps) >= 1 => s.result \in { "none", "success" })
  /\ \A r \in RunIds :
        Len(run[r].researchSteps) >= 1
          ~> (run[r].pc = "done" /\ run[r].result = "success")

\* a success report after one recorded step, every later research call
\* having failed
C33_Witness ==
  \E r \in RunIds :
    /\ run[r].pc = "done" /\ run[r].result = "success"
    /\ run[r].outcomes = << "ok", "fail", "fail", "fail", "fail" >>
    /\ Len(run[r].researchSteps) = 1

\* C34: a run that ends in failure has issued at most two backend calls,
\* none of them a synthesis call, and has recorded no step; a run without a
\* success is stopped no later than its second failed research call.
C34_FailedRunsAreShort ==
  \A r \in RunIds :
    LET s == run[r]
    IN  /\ (s.pc = "done" /\ s.result # "success")
              => /\ Len(s.calls) <= 2
                 /\ SynthesisCalls(s) = {}
                 /\ Len(s.researchSteps) = 0
        /\ Len(s.researchSteps) = 0
              => /\ Cardinality(FailedCalls(s)) <= 2
                 /\ Cardinality(FailedCalls(s)) = 2 => s.pc = "done"
                 /\ Cardinality(ResearchCalls(s)) <= 2

\* a run of the registered tool planned with five iterations was stopped
\* at its second failed call
C34_Witness ==
  \E r \in RunIds :
    /\ run[r].pc = "done" /\ run[r].result = "RESEARCH_ITERATIONS_FAILING"
    /\ run[r].via = "registry" /\ run[r].maxIterations = DefaultIterations
    /\ Len(run[r].calls) = 2
    /\ Cardinality(FailedCalls(run[r])) = 2

\* the allowance buildSmartContext is called with in the pass of the loop
\* that run s is in: researchBudget - cumulativeTokens
RemainingBudget(s) == s.researchBudget - s.cumulativeTokens

\* C35 (step): a pass that issues a research call built its context with
\* a positive allowance.
C35_IssuedWithBudget(r) ==
  Cardinality(ResearchCalls(run'[r])) > Cardinality(ResearchCalls(run[r]))
    => /\ RemainingBudget(run[r]) > 0
       /\ RemainingBudget(run'[r]) = RemainingBudget(run[r])

\* C35 (state): while a research call is in flight the remaining budget is
\* positive, and the context of every research prompt was built with a
\* positive allowance.
C35_PositiveAllowance(r) ==
  LET s == run[r]
  IN  /\ (s.pc = "chat" /\ s.phase = "research") => RemainingBudget(s) > 0
      /\ \A c \in ResearchCalls(s) :
            \A context \in s.calls[c].message.context : context[2] > 0

\* C35: whenever a research call is issued, researchBudget minus
\* cumulativeTokens is strictly positive, so the context of a research
\* prompt is never built with a zero or negative allowance.
C35_ContextAllowancePositive ==
  /\ [][\A r \in RunIds : C35_IssuedWithBudget(r)]_vars
  /\ [](\A r \in RunIds : C35_PositiveAllowance(r))

\* a research call in flight whose context was built with less than one
\* call's tokens left of the budget
C35_Witness ==
  \E r \in RunIds :
    /\ ResearchInFlight(run[r])
    /\ run[r].cumulativeTokens > 0
    /\ RemainingBudget(run[r]) < TokensPerCall
    /\ run[r].calls[Len(run[r].calls)].message.context
          = { << Len(run[r].researchSteps), RemainingBudget(run[r]) >> }

\* C36: in every catalog state, before, during and after the discovery and
\* for every discovered list, the empty one included, the default model is
\* one of the names getAvailableModels returns and that list is not empty.
C36_DefaultModelListed ==
  /\ getAvailableModels # << >>
  /\ defaultModel \in Range(getAvailableModels)

\* the part of C36 that holds: the default model is listed unless the
\* discovery brought back an empty list, which then is the whole catalog
C36_DefaultListedUnlessEmptyDiscovery ==
  \/ /\ getAvailableModels # << >>
     /\ defaultModel \in Range(getAvailableModels)
  \/ /\ discoveryOutcome = "discovered"
     /\ availableModels = << >>
     /\ defaultModel = ConfigDefaultModel

\* the discovery has replaced the catalog by a list that holds the default
C36_Discovered ==
  /\ discoveryOutcome = "discovered"
  /\ availableModels # getFallbackModels
  /\ defaultModel \in Range(getAvailableModels)

\* the values a run resolves at the head of execute
Resolved(s) ==
  << s.model, s.modelContextWindow, s.researchBudget, s.synthesisReserve >>

\* the window of a name before any discovery: that of the fallback list,
\* 32,000 for a name the list does not hold
FallbackWindow(name) ==
  IF \E k \in 1..Len(getFallbackModels) : getFallbackModels[k].name = name
    THEN (CHOOSE m \in Range(getFallbackModels) : m.name = name).contextWindow
    ELSE FallbackContextWindow

\* C37 (step): a run resolves its model, window and budgets in the step
\* that starts it, from the catalog as it is then, with no backend call
\* issued yet; no later step of the run or of the discovery changes them.
C37_ResolveStep(r) ==
  LET s == run[r]
      t == run'[r]
  IN  /\ (s.pc = "idle" /\ Started(t))
           => /\ t.calls = << >>
              /\ t.model = (IF t.modelArg # "" THEN t.modelArg ELSE defaultModel)
              /\ t.modelContextWindow = getModelContextWindow(availableModels, t.model)
              /\ initializationPromise = "null"
                   => t.modelContextWindow = FallbackWindow(t.model)
              /\ t.researchBudget * 100 <= t.modelContextWindow * 75
              /\ t.modelContextWindow * 75 < (t.researchBudget + 1) * 100
              /\ t.synthesisReserve * 100 <= t.modelContextWindow * 20
              /\ t.modelContextWindow * 20 < (t.synthesisReserve + 1) * 100
      /\ Started(s) => Resolved(t) = Resolved(s)

\* C37: a run resolves its model, context window, researchBudget and
\* synthesisReserve once, before its first backend call, from the catalog
\* at that moment (the fallback list, or 32,000 for an unlisted name, when
\* the discovery has not run); they never change during the run, also when
\* the discovery completes during the run's first call and replaces the
\* models and the default model.
C37_ResolvedOnce == [][\A r \in RunIds : C37_ResolveStep(r)]_vars

\* a run that resolved the fallback window of the configured default has
\* finished after the discovery replaced the list and that model's window
C37_Witness ==
  \E r \in RunIds :
    /\ run[r].pc = "done" /\ run[r].modelArg = ""
    /\ Len(run[r].calls) >= 2
    /\ discoveryOutcome = "discovered"
    /\ run[r].modelContextWindow = FallbackWindow(ConfigDefaultModel)
    /\ getModelContextWindow(availableModels, run[r].model) # run[r].modelContextWindow

\* a run resolved 32,000 for a name the fallback list does not hold
C37_WitnessUnlisted ==
  \E r \in RunIds :
    /\ Started(run[r]) /\ run[r].modelArg = "custom-model"
    /\ run[r].modelContextWindow = FallbackContextWindow

\* C38: when a run completes with a success report, cumulativeTokens, the
\* tokens of the research calls and of the synthesis call, does not exceed
\* the context window of the model: the utilization reported is at most
\* 100%.
C38_UtilizationAtMost100 ==
  \A r \in RunIds :
    (run[r].pc = "done" /\ run[r].result = "success")
      => run[r].cumulativeTokens <= run[r].modelContextWindow

\* the part of C38 that holds: the total stays inside the window when the
\* quarter of the window above researchBudget has room for the last
\* research call and the synthesis call
C38_WithinRoomyWindows ==
  \A r \in RunIds :
    (/\ run[r].pc = "done" /\ run[r].result = "success"
     /\ run[r].modelContextWindow - run[r].researchBudget >= 2 * TokensPerCall)
      => run[r].cumulativeTokens <= run[r].modelContextWindow

\* a success report of a run that used more than its window without any
\* synthesis call
C38_OverWindowByResearch ==
  \E r \in RunIds :
    /\ run[r].pc = "done" /\ run[r].result = "success"
    /\ run[r].cumulativeTokens - run[r].synthesisTokens > run[r].modelContextWindow

====
